---- MODULE Spec2Model ----
(***************************************************************************)
(* A model of the query/caching engine of omeka-custom-api (src/api.js,    *)
(* lines 1-412, with src/utils/query.js, src/utils/normalize.js,           *)
(* src/types.js and the redis wrapper).                                    *)
(*                                                                         *)
(* Conventions.  An optional value (a cache entry that may be absent, a    *)
(* JS value that may be null/undefined) is a sequence of length 0 or 1:    *)
(* None is <<>>, Some(v) is <<v>>.  Strings of the program that are        *)
(* compared character-wise (facet values, search terms) are sequences of   *)
(* code units (naturals).                                                  *)
(***************************************************************************)
EXTENDS Integers, Sequences, FiniteSets, TLC

VARIABLES
    upstream,          \* the upstream Omeka collection: a sequence of raw items
    cache,             \* the redis store, one field per key family
    awaitingAllItems,  \* api.js:34, the module-level in-flight flag
    proc,              \* per caller: position (pc), return stack and locals
    orphans,           \* armed safety timeouts whose getAllItems call has ended
    stalled,           \* history: a safety timeout fired while its fetch was paging
    out                \* the value produced by the last pure-function application

vars == <<upstream, cache, awaitingAllItems, proc, orphans, stalled, out>>

None == <<>>
Some(v) == <<v>>
IsSome(o) == o # <<>>
Val(o) == o[1]

(***************************************************************************)
(* Bounds of the model.                                                    *)
(***************************************************************************)
NCallers == 2        \* concurrent callers in the mirror specification
MaxOrphans == 1      \* armed timeouts left behind by calls that threw
MaxExtra == 2        \* items of free shape appended to the facet mirrors
MaxCalls == 2        \* requests served in a behaviour of the query specification

\* src/env.js:10 sets PAGE_LIMIT = 100; the model scales the page size down
\* so that a collection of a few items spans several pages.
PAGE_LIMIT == 2

\* src/env.js:11 sets PAGE_MAX_LIMIT = 10000; scaled down likewise, and like
\* the original larger than the collections of the model.
PAGE_MAX_LIMIT == 6

(***************************************************************************)
(* src/types.js: the linked types, their RDF term and raw property.        *)
(***************************************************************************)
TypeNames == <<"creator", "objectType", "theme", "era">>

types ==
    [creator    |-> [term |-> "foaf:Person",       property |-> "dcterms:creator"],
     objectType |-> [term |-> "skos:Concept",      property |-> "curation:category"],
     theme      |-> [term |-> "dctype:Collection", property |-> "curation:theme"],
     era        |-> [term |-> "dctype:Event",      property |-> "dcterms:coverage"]]

(***************************************************************************)
(* A raw item.  atType is the "@type" array; isPartOf says whether         *)
(* "dcterms:isPartOf" is present; links holds, per raw property, the       *)
(* value_resource_id of each reference; date is the year of                *)
(* "dcterms:date" (0: no date); reverse lists the ids under "@reverse"     *)
(* (empty: no "@reverse"); media the ids under "o:media"; text the         *)
(* extracted text and title the title, as strings (empty: absent).         *)
(***************************************************************************)
RawItem(id, atType, isPartOf, creator, category, theme, era, date) ==
    [id |-> id, atType |-> atType, isPartOf |-> isPartOf,
     links |-> [creator |-> creator, objectType |-> category,
                theme |-> theme, era |-> era],
     date |-> date, reverse |-> <<>>, media |-> <<>>, text |-> <<>>, title |-> <<>>,
     titleZh |-> <<>>, description |-> <<>>]

\* the same item with an "@reverse" listing of the items that reference it
WithReverse(item, ids) == [item EXCEPT !.reverse = ids]

\* the same item with "o:media" entries of these ids
WithMedia(item, ids) == [item EXCEPT !.media = ids]

\* the same item with this "dcterms:title"
WithTitle(item, str) == [item EXCEPT !.title = str]

\* the same item with a second "dcterms:title" value, of language zh (the
\* first value is of language en)
WithTitleZh(item, str) == [item EXCEPT !.titleZh = str]

\* the same item with this "dcterms:description"
WithDescription(item, str) == [item EXCEPT !.description = str]

\* the same item with this "extracttext:extracted_text"
WithText(item, str) == [item EXCEPT !.text = str]

\* item[property] for the property of linked type `type`
Prop(item, type) == item.links[type]

\* Array.prototype.includes on "@type"
Includes(seq, x) == \E i \in 1..Len(seq) : seq[i] = x

\* Array.prototype.filter
Filter(seq, Keep(_)) == SelectSeq(seq, Keep)

\* Array.prototype.sort((a, b) => b.count - a.count): stable, by count descending
RECURSIVE InsertByCount(_, _)
InsertByCount(sorted, e) ==
    IF sorted = <<>> THEN <<e>>
    ELSE IF Head(sorted).count >= e.count
         THEN <<Head(sorted)>> \o InsertByCount(Tail(sorted), e)
         ELSE <<e>> \o sorted

RECURSIVE SortByCountDesc(_)
SortByCountDesc(seq) ==
    IF seq = <<>> THEN <<>>
    ELSE InsertByCount(SortByCountDesc(SubSeq(seq, 1, Len(seq) - 1)), seq[Len(seq)])

\* the elements of a finite set of naturals in ascending order
RECURSIVE Ascending(_)
Ascending(S) ==
    IF S = {} THEN <<>>
    ELSE LET m == CHOOSE x \in S : \A y \in S : x <= y
         IN <<m>> \o Ascending(S \ {m})

\* the number of elements of seq satisfying P
CountIf(seq, P(_)) == Len(Filter(seq, P))

(***************************************************************************)
(* api.js:71-89 getFilterYears.  The years object is keyed by the year     *)
(* string; Object.entries lists integer-like keys in ascending numeric     *)
(* order, and the sort by count is stable.                                 *)
(***************************************************************************)
getFilterYears(allItems) ==
    LET HasYear(item) == item.date # 0
        dated == Filter(allItems, HasYear)
        years == {dated[i].date : i \in 1..Len(dated)}
        Entry(y) == LET IsY(item) == item.date = y
                    IN [value |-> y, count |-> CountIf(dated, IsY)]
        keys == Ascending(years)
    IN SortByCountDesc([i \in 1..Len(keys) |-> Entry(keys[i])])

(***************************************************************************)
(* api.js:92-114 getFilterByType.                                          *)
(***************************************************************************)
\* api.js:100-102: the items of allItems whose property references id
RefCount(type, allItems, id) ==
    LET Refers(item) == Includes(Prop(item, type), id)
    IN CountIf(allItems, Refers)

\* PositiveCount keeping the entries nothing references
PositiveCount_KeepsZero(e) == e.count >= 0

\* api.js:110 .filter(({ count }) => count > 0)
PositiveCount(e) == e.count > 0

getFilterByType(type, allItems) ==
    LET HasTerm(item) == Includes(item.atType, types[type].term)
        typed == Filter(allItems, HasTerm)
        entries == [i \in 1..Len(typed) |->
                       [id |-> typed[i].id,
                        count |-> RefCount(type, allItems, typed[i].id)]]
    IN SortByCountDesc(Filter(entries, PositiveCount))

(***************************************************************************)
(* api.js:121-132, the body of getFilters after the cache check: every     *)
(* facet is computed over the items without "dcterms:isPartOf".            *)
(***************************************************************************)
NotPart(item) == ~item.isPartOf

allItemsButIssues(allItems) == Filter(allItems, NotPart)

FiltersOf(allItems) ==
    LET nonParts == allItemsButIssues(allItems)
    IN [year       |-> getFilterYears(nonParts),
        creator    |-> getFilterByType("creator", nonParts),
        objectType |-> getFilterByType("objectType", nonParts),
        theme      |-> getFilterByType("theme", nonParts),
        era        |-> getFilterByType("era", nonParts)]

(***************************************************************************)
(* Strings.  The digits, the comma and the space as UTF-16 code units.     *)
(***************************************************************************)
Digit(n) == 48 + n

Comma == <<44>>

IsSpace(ch) == ch = 32

\* String(n)
RECURSIVE NatToStr(_)
NatToStr(n) ==
    IF n < 10 THEN <<Digit(n)>> ELSE Append(NatToStr(n \div 10), Digit(n % 10))

\* Number(str) for a string of digits
RECURSIVE StrToNat(_)
StrToNat(str) ==
    IF str = <<>> THEN 0
    ELSE 10 * StrToNat(SubSeq(str, 1, Len(str) - 1)) + (str[Len(str)] - 48)

\* Array.prototype.join(",")
RECURSIVE Join(_)
Join(strs) ==
    IF strs = <<>> THEN <<>>
    ELSE IF Len(strs) = 1 THEN strs[1]
    ELSE strs[1] \o Comma \o Join(Tail(strs))

\* String.prototype.split(","): "" gives [""]
RECURSIVE Split(_)
Split(str) ==
    LET commas == {i \in 1..Len(str) : <<str[i]>> = Comma} IN
    IF commas = {} THEN <<str>>
    ELSE LET first == CHOOSE i \in commas : \A j \in commas : i <= j
         IN <<SubSeq(str, 1, first - 1)>> \o Split(SubSeq(str, first + 1, Len(str)))

\* String.prototype.trim
RECURSIVE Trim(_)
Trim(str) ==
    IF str = <<>> THEN <<>>
    ELSE IF IsSpace(Head(str)) THEN Trim(Tail(str))
    ELSE IF IsSpace(str[Len(str)]) THEN Trim(SubSeq(str, 1, Len(str) - 1))
    ELSE str

\* a < b in the order of Array.prototype.sort(): by code unit, a prefix first
RECURSIVE StrLess(_, _)
StrLess(a, b) ==
    IF b = <<>> THEN FALSE
    ELSE IF a = <<>> THEN TRUE
    ELSE IF Head(a) # Head(b) THEN Head(a) < Head(b)
    ELSE StrLess(Tail(a), Tail(b))

RECURSIVE InsertStr(_, _)
InsertStr(sorted, str) ==
    IF sorted = <<>> THEN <<str>>
    ELSE IF StrLess(str, Head(sorted)) THEN <<str>> \o sorted
    ELSE <<Head(sorted)>> \o InsertStr(Tail(sorted), str)

\* SortStrings leaving the order as it is
SortStrings_Unsorted(strs) == strs

\* Array.prototype.sort() on strings
RECURSIVE SortStrings(_)
SortStrings(strs) ==
    IF strs = <<>> THEN <<>>
    ELSE InsertStr(SortStrings(SubSeq(strs, 1, Len(strs) - 1)), strs[Len(strs)])

(***************************************************************************)
(* query.js:12-62 parseQuery.  A query object holds optional strings       *)
(* (the facet keys, search, id) and optional numbers (limit, page).  The   *)
(* query string is kept as the sequence of its "&"-joined parts.           *)
(***************************************************************************)
EmptyQuery ==
    [objectType |-> None, creator |-> None, theme |-> None, era |-> None,
     year |-> None, search |-> None, id |-> None, limit |-> None, page |-> None,
     lang |-> None]

\* types.js:26-29 filterConfig; filterQuery's default search type is "res"
filterConfig ==
    [objectType |-> [property |-> types.objectType.property, searchType |-> "res"],
     creator    |-> [property |-> types.creator.property,    searchType |-> "res"],
     theme      |-> [property |-> types.theme.property,      searchType |-> "res"],
     era        |-> [property |-> types.era.property,        searchType |-> "res"],
     year       |-> [property |-> "dcterms:date",            searchType |-> "sw"]]

\* query.js:19-25: the keys of `filters`, in the order of the object literal
FacetKeys == <<"objectType", "creator", "theme", "era", "year">>

FilterKeys_NoId == {"objectType", "creator", "theme", "era", "year", "search"}

\* query.js:13-17
FilterKeys == {"objectType", "creator", "theme", "era", "year", "search", "id"}

Part(name, index, property, type, text, n) ==
    [name |-> name, index |-> index, property |-> property, type |-> type,
     text |-> text, n |-> n]

\* query.js:72-74 filterQuery
filterQuery(property, value, index, type) ==
    Part("property", index, property, type, value, 0)

\* query.js:20-24: one facet's values, split and sorted
FacetValues(query, key) ==
    IF IsSome(query[key]) THEN SortStrings(Split(Val(query[key]))) ELSE <<>>

\* query.js:27-40: the property blocks of the facets from position k on,
\* numbered from index
RECURSIVE Blocks(_, _, _)
Blocks(query, k, index) ==
    IF k > Len(FacetKeys) THEN <<>>
    ELSE LET key == FacetKeys[k]
             values == FacetValues(query, key)
         IN [i \in 1..Len(values) |->
                filterQuery(filterConfig[key].property, values[i], index + i - 1,
                            filterConfig[key].searchType)]
            \o Blocks(query, k + 1, index + Len(values))

parseQuery(query) ==
    LET isFiltered == \E key \in FilterKeys : IsSome(query[key])
        search == IF IsSome(query.search) THEN Trim(Val(query.search)) ELSE <<>>
        limit == IF IsSome(query.limit) THEN Val(query.limit)
                 ELSE IF isFiltered THEN PAGE_MAX_LIMIT ELSE PAGE_LIMIT
        page == IF IsSome(query.page) THEN Val(query.page) ELSE 1
    IN [queryString |->
            Blocks(query, 1, 0)
            \o (IF search # <<>> THEN <<Part("fulltext_search", 0, "", "", search, 0)>>
                ELSE <<>>)
            \o <<Part("per_page", 0, "", "", <<>>, limit)>>
            \o <<Part("page", 0, "", "", <<>>, page)>>
            \o (IF IsSome(query.id) /\ Val(query.id) # <<>>
                THEN <<Part("id", 0, "", "", Val(query.id), 0)>> ELSE <<>>),
        isFiltered |-> isFiltered,
        limit |-> limit]

(***************************************************************************)
(* The redis wrapper (redis.js): getCache is a GET, setCache a SETEX that  *)
(* returns the value it was given.  Commands travel on one connection, so  *)
(* redis serves them in the order the callers sent them: a read is         *)
(* modelled at the moment the call is made, and the caller's continuation  *)
(* (the code after the await) is a later step.                             *)
(***************************************************************************)
\* The keys "item:{id}", "item:details:{id}", "query:{queryString}" and
\* "page:{localSlug}" are kept per family, as sets of entries [key, value]
\* with distinct keys.
EmptyCache ==
    [allItems |-> None, filters |-> None, creators |-> None, counts |-> None,
     featured |-> None, heroes |-> None,
     item |-> {}, details |-> {}, query |-> {}, page |-> {}]

getCache(key) == cache[key]

setCache(key, value) == [cache EXCEPT ![key] = Some(value)]

\* getCache(`{family}:{key}`)
getCacheOf(family, key) ==
    IF \E e \in cache[family] : e.key = key
    THEN Some((CHOOSE e \in cache[family] : e.key = key).value)
    ELSE None

\* setCache(`{family}:{key}`, ttl, value)
setCacheOf(family, key, value) ==
    [cache EXCEPT ![family] =
        {e \in @ : e.key # key} \cup {[key |-> key, value |-> value]}]

\* redis.js delCache(`{family}:{key}`), applied to the cache `store`
delCacheOf(store, family, key) ==
    [store EXCEPT ![family] = {e \in @ : e.key # key}]

\* the TTL of `{family}:{key}` runs out
ExpireOf(family, key) ==
    /\ \E e \in cache[family] : e.key = key
    /\ cache' = [cache EXCEPT ![family] = {e \in @ : e.key # key}]
    /\ UNCHANGED <<upstream, awaitingAllItems, proc, orphans, stalled, out>>

\* a key's TTL runs out
Expire(key) ==
    /\ IsSome(cache[key])
    /\ cache' = [cache EXCEPT ![key] = None]
    /\ UNCHANGED <<upstream, awaitingAllItems, proc, orphans, stalled, out>>

(***************************************************************************)
(* Callers.  A caller is idle, or runs one top-level call whose nested     *)
(* calls are on `stack` (the labels to continue at when the callee         *)
(* returns).  No function of api.js catches an exception: a throw ends     *)
(* the whole top-level call (pc = "threw").                                *)
(***************************************************************************)
Callers == DOMAIN proc

\* api.js:241: the default of the `options` parameter
DefaultOptions == [retrieveCreators |-> TRUE, removeCreators |-> FALSE]

NoCounts == [creators |-> 0, objects |-> 0]

Idle ==
    [pc |-> "idle", op |-> "none", stack |-> <<>>, force |-> FALSE, cached |-> None,
     page |-> 0, allItems |-> <<>>, timeout |-> FALSE, val |-> None,
     \* the arguments and locals of queryItems, getItem and getItemDetails
     id |-> None, query |-> EmptyQuery, options |-> DefaultOptions,
     key |-> None, isFiltered |-> FALSE, limit |-> 0, json |-> None,
     items |-> <<>>, hasNextPage |-> FALSE, counts |-> NoCounts,
     \* history of this top-level call
     requests |-> 0,    \* upstream listing requests of the mirror fetch
     wrote |-> FALSE,   \* it has written "allItems"
     hit |-> FALSE,     \* queryItems found its query key in the cache
     sent |-> {},       \* the upstream endpoints it has requested
     stored |-> {},     \* the cache keys (families) it has written
     nonOk |-> {},      \* the functions that received a failed upstream response
     errored |-> {},    \* the functions that returned {error: response}
     called |-> {},     \* the functions it started without awaiting, or scheduled
     deleted |-> {},    \* the cache keys (families) it has deleted
     before |-> None,   \* the cache as flush(), or update after its poll, found it
     forced |-> FALSE,  \* the top-level call is getAllItems(true)
     fresh |-> FALSE]   \* "allItems" was written since that forced call began

\* `return v` of the running function
Return(c, v) ==
    IF c.stack = <<>>
    THEN [c EXCEPT !.pc = "done", !.val = Some(v), !.cached = None, !.force = FALSE]
    ELSE [c EXCEPT !.pc = Head(c.stack), !.stack = Tail(c.stack), !.val = Some(v),
                   !.cached = None, !.force = FALSE]

\* an exception leaves the running function and every caller of it
Throw(c) ==
    [c EXCEPT !.pc = "threw", !.stack = <<>>, !.val = None, !.cached = None,
              !.force = FALSE, !.page = 0, !.allItems = <<>>]

\* the call f(force) of a cached function: its first statement, the cache read
Enter(c, label, key, force) ==
    [c EXCEPT !.pc = label, !.force = force, !.cached = getCache(key)]

\* the call of f from the function running at c, to continue at `back`
Invoke(c, back, label, key, force) ==
    Enter([c EXCEPT !.stack = <<back>> \o @], label, key, force)

(***************************************************************************)
(* The upstream listing GET /items?page=&per_page=PAGE_LIMIT.              *)
(***************************************************************************)
Min(a, b) == IF a <= b THEN a ELSE b

PageOf(items, page) ==
    SubSeq(items, (page - 1) * PAGE_LIMIT + 1, Min(page * PAGE_LIMIT, Len(items)))

\* What one request can come to: a JSON array, or a failure (the request is
\* rejected, or the reply is an error whose body is no JSON array).
Outcomes == {"ok", "fail"}

(***************************************************************************)
(* api.js:36-68 getAllItems(force).                                        *)
(***************************************************************************)
\* api.js:36-37: the call, up to the await of the cache read
getAllItems_Call(p, force) ==
    /\ proc[p].pc = "idle"
    /\ proc' = [proc EXCEPT ![p] = Enter([@ EXCEPT !.op = "getAllItems", !.forced = force],
                                          "ga_gate", "allItems", force)]
    /\ UNCHANGED <<upstream, cache, awaitingAllItems, orphans, stalled, out>>

\* getAllItems_Gate without the in-flight check of api.js:39-42
getAllItems_Gate_Unguarded(p) ==
    LET c == proc[p] IN
    /\ c.pc = "ga_gate"
    /\ IF IsSome(c.cached) /\ ~c.force
       THEN /\ proc' = [proc EXCEPT ![p] = Return(c, Val(c.cached))]
            /\ UNCHANGED awaitingAllItems
       ELSE /\ awaitingAllItems' = TRUE
            /\ proc' = [proc EXCEPT ![p] = [c EXCEPT !.pc = "ga_fetch", !.timeout = TRUE,
                                                     !.page = 1, !.allItems = <<>>,
                                                     !.cached = None, !.force = FALSE]]
    /\ UNCHANGED <<upstream, cache, orphans, stalled, out>>

\* getAllItems_Gate taking every call for a forced one
getAllItems_Gate_Refetches(p) ==
    LET c == proc[p] IN
    /\ c.pc = "ga_gate"
    /\ IF awaitingAllItems
       THEN /\ proc' = [proc EXCEPT ![p] = [c EXCEPT !.pc = "ga_wait", !.cached = None,
                                                     !.force = FALSE]]
            /\ UNCHANGED awaitingAllItems
       ELSE /\ awaitingAllItems' = TRUE
            /\ proc' = [proc EXCEPT ![p] = [c EXCEPT !.pc = "ga_fetch", !.timeout = TRUE,
                                                     !.page = 1, !.allItems = <<>>,
                                                     !.cached = None, !.force = FALSE]]
    /\ UNCHANGED <<upstream, cache, orphans, stalled, out>>

\* api.js:38-44: the cache hit, the in-flight check, and taking the flag
getAllItems_Gate(p) ==
    LET c == proc[p] IN
    /\ c.pc = "ga_gate"
    /\ IF IsSome(c.cached) /\ ~c.force
       THEN /\ proc' = [proc EXCEPT ![p] = Return(c, Val(c.cached))]
            /\ UNCHANGED awaitingAllItems
       ELSE IF awaitingAllItems
       THEN /\ proc' = [proc EXCEPT ![p] = [c EXCEPT !.pc = "ga_wait", !.cached = None,
                                                     !.force = FALSE]]
            /\ UNCHANGED awaitingAllItems
       ELSE /\ awaitingAllItems' = TRUE
            /\ proc' = [proc EXCEPT ![p] = [c EXCEPT !.pc = "ga_fetch", !.timeout = TRUE,
                                                     !.page = 1, !.allItems = <<>>,
                                                     !.cached = None, !.force = FALSE]]
    /\ UNCHANGED <<upstream, cache, orphans, stalled, out>>

\* api.js:40-41: the 500 ms wait is over; the call starts again, not forced
getAllItems_Wait(p) ==
    /\ proc[p].pc = "ga_wait"
    /\ proc' = [proc EXCEPT ![p] = Enter(@, "ga_gate", "allItems", FALSE)]
    /\ UNCHANGED <<upstream, cache, awaitingAllItems, orphans, stalled, out>>

\* api.js:65-67: the loop is left; the flag is reset, the timeout cleared and
\* the mirror stored in the same turn (the forced calls under way note the
\* write in their history)
getAllItems_Store(p, c) ==
    /\ awaitingAllItems' = FALSE
    /\ cache' = setCache("allItems", c.allItems)
    /\ proc' = [r \in DOMAIN proc |->
                   IF r = p
                   THEN Return([c EXCEPT !.timeout = FALSE, !.page = 0,
                                         !.allItems = <<>>, !.wrote = TRUE,
                                         !.stored = @ \cup {"allItems"}],
                               c.allItems)
                   ELSE [proc[r] EXCEPT !.fresh = @ \/ proc[r].forced]]

\* getAllItems_Fail storing what was fetched so far before it throws
getAllItems_Fail_StoresPartial(p, c) ==
    /\ proc' = [proc EXCEPT ![p] = Throw([c EXCEPT !.wrote = TRUE,
                                                   !.nonOk = @ \cup {"getAllItems"}])]
    /\ cache' = setCache("allItems", c.allItems)
    /\ UNCHANGED awaitingAllItems

\* an upstream page request fails: the exception leaves getAllItems at once
getAllItems_Fail(p, c) ==
    /\ proc' = [proc EXCEPT ![p] = Throw([c EXCEPT !.nonOk = @ \cup {"getAllItems"}])]
    /\ UNCHANGED <<cache, awaitingAllItems>>

\* api.js:49-63: one turn of the paging loop
getAllItems_Page(p) ==
    LET c == [proc[p] EXCEPT !.requests = @ + 1, !.sent = @ \cup {"items?page"}]
        data == PageOf(upstream, c.page)
    IN
    /\ proc[p].pc = "ga_fetch"
    /\ \E outcome \in Outcomes :
          IF outcome = "fail" THEN getAllItems_Fail(p, c)
          ELSE IF Len(data) = 0 THEN getAllItems_Store(p, c)
          ELSE /\ proc' = [proc EXCEPT ![p] = [c EXCEPT !.allItems = @ \o data,
                                                        !.page = @ + 1]]
               /\ UNCHANGED <<cache, awaitingAllItems>>
    /\ UNCHANGED <<upstream, orphans, stalled, out>>

\* SafetyTimeout leaving the flag as it is
SafetyTimeout_KeepsFlag(p) ==
    /\ proc[p].timeout
    /\ stalled' = (stalled \/ proc[p].pc = "ga_fetch")
    /\ proc' = [proc EXCEPT ![p].timeout = FALSE]
    /\ UNCHANGED <<upstream, cache, awaitingAllItems, orphans, out>>

\* api.js:44: the 30 s timeout of a call fires
SafetyTimeout(p) ==
    /\ proc[p].timeout
    /\ awaitingAllItems' = FALSE
    /\ stalled' = (stalled \/ proc[p].pc = "ga_fetch")
    /\ proc' = [proc EXCEPT ![p].timeout = FALSE]
    /\ UNCHANGED <<upstream, cache, orphans, out>>

\* api.js:44: the timeout of a call that has ended (it threw) fires
OrphanTimeout ==
    /\ orphans > 0
    /\ orphans' = orphans - 1
    /\ awaitingAllItems' = FALSE
    /\ UNCHANGED <<upstream, cache, proc, stalled, out>>

\* the top-level call has ended and the caller makes ready for another one;
\* a timeout it left armed stays armed
Finish(p) ==
    /\ proc[p].pc \in {"done", "threw"}
    /\ IF proc[p].timeout
       THEN orphans < MaxOrphans /\ orphans' = orphans + 1
       ELSE UNCHANGED orphans
    /\ proc' = [proc EXCEPT ![p] = Idle]
    /\ UNCHANGED <<upstream, cache, awaitingAllItems, stalled, out>>

(***************************************************************************)
(* normalize.js:49-61 normalizeType: the first entry of "@type" that is    *)
(* the term of a linked type names the type; "object" otherwise.           *)
(***************************************************************************)
Terms == {types[t].term : t \in DOMAIN types}

normalizeType(item) ==
    LET known == {i \in 1..Len(item.atType) : item.atType[i] \in Terms}
    IN IF known = {} THEN "object"
       ELSE LET first == CHOOSE i \in known : \A j \in known : i <= j
            IN CHOOSE t \in DOMAIN types : types[t].term = item.atType[first]

(***************************************************************************)
(* api.js:153-163, the body of getCounts after the cache check.            *)
(***************************************************************************)
\* CountsOf counting the parts too
CountsOf_WithParts(allItems) ==
    LET IsCreator(item) == normalizeType(item) = "creator"
        IsObject(item) == normalizeType(item) = "object"
    IN [creators |-> CountIf(allItems, IsCreator),
        objects  |-> CountIf(allItems, IsObject)]

CountsOf(allItems) ==
    LET nonParts == allItemsButIssues(allItems)
        IsCreator(item) == normalizeType(item) = "creator"
        IsObject(item) == normalizeType(item) = "object"
    IN [creators |-> CountIf(nonParts, IsCreator),
        objects  |-> CountIf(nonParts, IsObject)]

(***************************************************************************)
(* normalize.js:200-223 resolveLinkedProperties.  `filters` is optional:   *)
(* getCreators maps normalizeOmekaFields over the mirror, so the array     *)
(* index arrives as `filters` and filters[name] is undefined.  A raw       *)
(* property that is absent gives undefined (None).                         *)
(***************************************************************************)
RECURSIVE Dedupe(_)
Dedupe(ids) ==
    IF ids = <<>> THEN <<>>
    ELSE LET init == Dedupe(SubSeq(ids, 1, Len(ids) - 1))
             last == ids[Len(ids)]
         IN IF Includes(init, last) THEN init ELSE Append(init, last)

resolveLinkedProperties(item, filters) ==
    [name \in DOMAIN types |->
        LET InFacet(id) ==
                /\ IsSome(filters)
                /\ \E i \in 1..Len(Val(filters)[name]) : Val(filters)[name][i].id = id
        IN IF Prop(item, name) = <<>> THEN None
           ELSE Some(Dedupe(Filter(Prop(item, name), InFacet)))]

(***************************************************************************)
(* normalize.js:113-137 normalizeOmekaFields, with the fields the engine   *)
(* reads: id, title, type, isPart, media, items (only with include.items;  *)
(* None without "@reverse"), description and text (only with the flag of   *)
(* `include`; None, i.e. left out by omitNullish, without the raw          *)
(* property), and the resolved linked properties.  A flag that is FALSE    *)
(* stands for a flag that `include` lacks, as in every call of the model;  *)
(* `snippets` is the property queryItems adds, None until then.            *)
(***************************************************************************)
NoInclude == [text |-> FALSE, description |-> FALSE, heroes |-> FALSE, items |-> FALSE]

normalizeOmekaFields(item, filters, include) ==
    [id     |-> item.id,
     title  |-> item.title,
     titleZh |-> item.titleZh,
     type   |-> normalizeType(item),
     isPart |-> item.isPartOf,
     media  |-> item.media,
     items  |-> IF include.items /\ item.reverse # <<>> THEN Some(item.reverse) ELSE None,
     description |-> IF include.description /\ item.description # <<>>
                     THEN Some(item.description) ELSE None,
     text   |-> IF include.text /\ item.text # <<>> THEN Some(item.text) ELSE None,
     snippets |-> None,
     links  |-> resolveLinkedProperties(item, filters)]

(***************************************************************************)
(* api.js:140-144, the body of getCreators after the cache check.          *)
(***************************************************************************)
CreatorsOf(allItems) ==
    LET IsPerson(item) == Includes(item.atType, types.creator.term)
        persons == Filter(allItems, IsPerson)
    IN [i \in 1..Len(persons) |-> normalizeOmekaFields(persons[i], None, NoInclude)]

(***************************************************************************)
(* api.js:117-134 getFilters(force).                                       *)
(***************************************************************************)
\* api.js:118: the call, up to the await of the cache read
getFilters_Call(p, force) ==
    /\ proc[p].pc = "idle"
    /\ proc' = [proc EXCEPT ![p] = Enter([@ EXCEPT !.op = "getFilters"],
                                          "gf_gate", "filters", force)]
    /\ UNCHANGED <<upstream, cache, awaitingAllItems, orphans, stalled, out>>

\* api.js:119-121: the cache hit, or the call of getAllItems()
getFilters_Gate(p) ==
    LET c == proc[p] IN
    /\ c.pc = "gf_gate"
    /\ proc' = [proc EXCEPT ![p] =
                   IF IsSome(c.cached) /\ ~c.force
                   THEN Return(c, Val(c.cached))
                   ELSE Invoke(c, "gf_compute", "ga_gate", "allItems", FALSE)]
    /\ UNCHANGED <<upstream, cache, awaitingAllItems, orphans, stalled, out>>

\* api.js:122-133: getAllItems() has returned; compute the facets and store them
getFilters_Compute(p) ==
    LET c == proc[p]
        filters == FiltersOf(Val(c.val))
    IN
    /\ c.pc = "gf_compute"
    /\ cache' = setCache("filters", filters)
    /\ proc' = [proc EXCEPT ![p] = Return([c EXCEPT !.stored = @ \cup {"filters"}], filters)]
    /\ UNCHANGED <<upstream, awaitingAllItems, orphans, stalled, out>>

(***************************************************************************)
(* api.js:136-147 getCreators(force).                                      *)
(***************************************************************************)
getCreators_Call(p, force) ==
    /\ proc[p].pc = "idle"
    /\ proc' = [proc EXCEPT ![p] = Enter([@ EXCEPT !.op = "getCreators"],
                                          "gcr_gate", "creators", force)]
    /\ UNCHANGED <<upstream, cache, awaitingAllItems, orphans, stalled, out>>

getCreators_Gate(p) ==
    LET c == proc[p] IN
    /\ c.pc = "gcr_gate"
    /\ proc' = [proc EXCEPT ![p] =
                   IF IsSome(c.cached) /\ ~c.force
                   THEN Return(c, Val(c.cached))
                   ELSE Invoke(c, "gcr_compute", "ga_gate", "allItems", FALSE)]
    /\ UNCHANGED <<upstream, cache, awaitingAllItems, orphans, stalled, out>>

getCreators_Compute(p) ==
    LET c == proc[p]
        creators == CreatorsOf(Val(c.val))
    IN
    /\ c.pc = "gcr_compute"
    /\ cache' = setCache("creators", creators)
    /\ proc' = [proc EXCEPT ![p] = Return([c EXCEPT !.stored = @ \cup {"creators"}], creators)]
    /\ UNCHANGED <<upstream, awaitingAllItems, orphans, stalled, out>>

(***************************************************************************)
(* api.js:149-165 getCounts(force).                                        *)
(***************************************************************************)
getCounts_Call(p, force) ==
    /\ proc[p].pc = "idle"
    /\ proc' = [proc EXCEPT ![p] = Enter([@ EXCEPT !.op = "getCounts"],
                                          "gc_gate", "counts", force)]
    /\ UNCHANGED <<upstream, cache, awaitingAllItems, orphans, stalled, out>>

getCounts_Gate(p) ==
    LET c == proc[p] IN
    /\ c.pc = "gc_gate"
    /\ proc' = [proc EXCEPT ![p] =
                   IF IsSome(c.cached) /\ ~c.force
                   THEN Return(c, Val(c.cached))
                   ELSE Invoke(c, "gc_compute", "ga_gate", "allItems", FALSE)]
    /\ UNCHANGED <<upstream, cache, awaitingAllItems, orphans, stalled, out>>

getCounts_Compute(p) ==
    LET c == proc[p]
        counts == CountsOf(Val(c.val))
    IN
    /\ c.pc = "gc_compute"
    /\ cache' = setCache("counts", counts)
    /\ proc' = [proc EXCEPT ![p] = Return([c EXCEPT !.stored = @ \cup {"counts"}], counts)]
    /\ UNCHANGED <<upstream, awaitingAllItems, orphans, stalled, out>>

(***************************************************************************)
(* The upstream search GET /items?sort_by=created&sort_order=desc&{query   *)
(* string} (api.js:253-255): the items that satisfy every part of the      *)
(* query string, newest first, cut to the requested page.                  *)
(***************************************************************************)
IsPrefix(a, b) == Len(a) <= Len(b) /\ SubSeq(b, 1, Len(a)) = a

Contains(str, sub) ==
    \E i \in 0..(Len(str) - Len(sub)) : SubSeq(str, i + 1, i + Len(sub)) = sub

RECURSIVE Reverse(_)
Reverse(seq) == IF seq = <<>> THEN <<>> ELSE Append(Reverse(Tail(seq)), Head(seq))

\* the linked type whose raw property this is
TypeOfProperty(property) == CHOOSE t \in DOMAIN types : types[t].property = property

Satisfies(item, part) ==
    IF part.name = "property" THEN
        IF part.type = "res"
        THEN Includes(Prop(item, TypeOfProperty(part.property)), StrToNat(part.text))
        ELSE item.date # 0 /\ IsPrefix(part.text, NatToStr(item.date))
    ELSE IF part.name = "fulltext_search" THEN Contains(item.text, part.text)
    ELSE IF part.name = "id"
    THEN \E k \in 1..Len(Split(part.text)) : StrToNat(Split(part.text)[k]) = item.id
    ELSE TRUE

PartNamed(queryString, name) ==
    CHOOSE part \in {queryString[k] : k \in 1..Len(queryString)} : part.name = name

Search(items, queryString) ==
    LET Match(item) == \A k \in 1..Len(queryString) : Satisfies(item, queryString[k])
        found == Reverse(Filter(items, Match))
        perPage == PartNamed(queryString, "per_page").n
        page == PartNamed(queryString, "page").n
    IN SubSeq(found, (page - 1) * perPage + 1, Min(page * perPage, Len(found)))

(***************************************************************************)
(* utils/retrieve.js retrieveCreators(items, creators, id): the creators   *)
(* that the items reference and that are neither among the items nor the   *)
(* parent item itself, each once, in the order of the creators list.       *)
(***************************************************************************)
IdsOf(items) == {items[k].id : k \in 1..Len(items)}

retrieveCreators(items, creators, id) ==
    LET Referenced(creator) ==
            /\ \E k \in 1..Len(items) :
                  /\ IsSome(items[k].links.creator)
                  /\ Includes(Val(items[k].links.creator), creator.id)
            /\ creator.id \notin IdsOf(items)
            /\ id # Some(creator.id)
        found == Filter(creators, Referenced)
        FirstOfId(k) == \A j \in 1..(k - 1) : found[j].id # found[k].id
        firsts == {k \in 1..Len(found) : FirstOfId(k)}
        KeepFirst(creator) ==
            \E k \in firsts : found[k] = creator
    IN Filter(found, KeepFirst)

(***************************************************************************)
(* normalize.js:149-173 normalizeItemFilters.  Per linked type, the        *)
(* number of items that list each id (the keys of the object in ascending  *)
(* order); the year is read from "dcterms:date", which a normalized item   *)
(* does not have, so every item is counted under the key "undefined".      *)
(***************************************************************************)
normalizeItemFilters(items) ==
    LET Listed(key) ==
            UNION {{Val(items[k].links[key])[j] : j \in 1..Len(Val(items[k].links[key]))} :
                   k \in {n \in 1..Len(items) : IsSome(items[n].links[key])}}
        \* a normalized item lists an id at most once
        Times(key, id) ==
            Cardinality({k \in 1..Len(items) :
                           /\ IsSome(items[k].links[key])
                           /\ Includes(Val(items[k].links[key]), id)})
        Facet(key) ==
            LET ids == Ascending(Listed(key))
            IN [k \in 1..Len(ids) |-> [id |-> ids[k], count |-> Times(key, ids[k])]]
    IN [creator |-> Facet("creator"), objectType |-> Facet("objectType"),
        theme |-> Facet("theme"), era |-> Facet("era"),
        year |-> IF items = <<>> THEN <<>>
                 ELSE <<[value |-> "undefined", count |-> Len(items)]>>]

(***************************************************************************)
(* api.js:26-32, 302-322: toSorted by localized title.  A title with two   *)
(* values is normalized to the language map {en, zh} (title, titleZh), a   *)
(* title with one value to a plain string.  The titles of the model are    *)
(* strings of lower-case letters, which both collators order by code unit; *)
(* toSorted is stable and calls its comparator only for an array of two or *)
(* more items.  collators[lang] is undefined for any other language, and   *)
(* the comparator then throws a TypeError at `.compare`.                   *)
(***************************************************************************)
\* api.js:26-32: the keys of `collators`
collators == {"en", "zh"}

\* api.js:302, 341
LangOf(query) == IF IsSome(query.lang) THEN Val(query.lang) ELSE "en"

\* helper.js localizeObject(item.title, lang) with lang given
localizeObject(item, lang) ==
    IF item.titleZh = <<>> THEN item.title
    ELSE IF lang = "zh" THEN item.titleZh
    ELSE item.title

RECURSIVE InsertByTitle(_, _, _)
InsertByTitle(sorted, item, lang) ==
    IF sorted = <<>> THEN <<item>>
    ELSE IF StrLess(localizeObject(item, lang), localizeObject(Head(sorted), lang))
    THEN <<item>> \o sorted
    ELSE <<Head(sorted)>> \o InsertByTitle(Tail(sorted), item, lang)

RECURSIVE toSortedByTitle(_, _)
toSortedByTitle(items, lang) ==
    IF items = <<>> THEN <<>>
    ELSE InsertByTitle(toSortedByTitle(SubSeq(items, 1, Len(items) - 1), lang),
                       items[Len(items)], lang)

\* the comparator runs, and with it collators[lang].compare
CompareCalled(items) == Len(items) >= 2

(***************************************************************************)
(* utils/normalize.js:254-260 normalizeSearchString and utils/snippets.js  *)
(* 9-68 extractSnippets, searchToRegex and matchWithContext.  Strings are  *)
(* sequences of UTF-16 code units; the strings of the model hold           *)
(* lower-case letters, Han characters, commas, spaces and quotation marks, *)
(* so that escaping the regex metacharacters and the flag i change         *)
(* nothing: a term matches where the text holds it literally.              *)
(***************************************************************************)
IsQuote(ch) == ch = 34

\* /\p{Script=Han}/u, for the characters of the CJK Unified Ideographs block
IsHan(ch) == ch >= 19968 /\ ch <= 40959

\* the character U+2026
Ellipsis == <<8230>>

\* normalize.js:254-260
normalizeSearchString(searchString) ==
    LET Kept(str) == Len(str) >= 3 \/ \E i \in 1..Len(str) : IsHan(str[i])
    IN IF searchString = None THEN <<>>
       ELSE SortStrings(Filter(Split(Val(searchString)), Kept))

\* snippets.js:27: where the token that starts at the non-space str[i] ends:
\* at the next quotation mark if it starts with one and another follows,
\* otherwise before the next space
TokenEnd(str, i) ==
    LET closing == {j \in (i + 1)..Len(str) : IsQuote(str[j])}
        spaces == {j \in i..Len(str) : IsSpace(str[j])}
    IN IF IsQuote(str[i]) /\ closing # {}
       THEN CHOOSE j \in closing : \A m \in closing : j <= m
       ELSE IF spaces = {} THEN Len(str)
       ELSE (CHOOSE j \in spaces : \A m \in spaces : j <= m) - 1

\* snippets.js:27-29: str.match(/"([^"]*)"|(\S+)/g) from position i on
RECURSIVE TokensFrom(_, _)
TokensFrom(str, i) ==
    IF i > Len(str) THEN <<>>
    ELSE IF IsSpace(str[i]) THEN TokensFrom(str, i + 1)
    ELSE <<SubSeq(str, i, TokenEnd(str, i))>> \o TokensFrom(str, TokenEnd(str, i) + 1)

\* snippets.js:30-38: the alternatives of the regex, the tokens without
\* their quotation marks
searchToRegex(str) ==
    LET matches == TokensFrom(str, 1)
        NotQuote(ch) == ~IsQuote(ch)
    IN [k \in 1..Len(matches) |-> Filter(matches[k], NotQuote)]

\* the text holds the term at position i
MatchesAt(text, i, term) ==
    /\ i + Len(term) - 1 <= Len(text)
    /\ SubSeq(text, i, i + Len(term) - 1) = term

\* snippets.js:52 sets context = 60; here 2
context == 2

\* snippets.js:52-68: the matches from position `from` on (regex.lastIndex
\* + 1), for a regex of non-empty alternatives: the leftmost position where
\* an alternative matches, and there the first alternative that does
RECURSIVE matchWithContext(_, _, _)
matchWithContext(text, regex, from) ==
    LET found == {i \in from..Len(text) :
                    \E k \in 1..Len(regex) : MatchesAt(text, i, regex[k])}
    IN IF found = {} THEN <<>>
       ELSE LET at == CHOOSE i \in found : \A j \in found : i <= j
                alternatives == {k \in 1..Len(regex) : MatchesAt(text, at, regex[k])}
                term == regex[CHOOSE k \in alternatives : \A j \in alternatives : k <= j]
                index == at - 1
                start == IF index - context > 0 THEN index - context ELSE 0
                stop == Min(Len(text), index + Len(term) + context)
                sliced == Trim(SubSeq(text, start + 1, stop))
                snippet == (IF start > 0 THEN Ellipsis ELSE <<>>) \o sliced
                           \o (IF stop < Len(text) THEN Ellipsis ELSE <<>>)
            IN <<[term |-> term, snippet |-> snippet]>>
               \o matchWithContext(text, regex, at + Len(term))

\* extractSnippets limiting the snippets of each field
extractSnippets_PerField(item, search) ==
    LET regex == searchToRegex(search)
        ofDescription == matchWithContext(item.description, regex, 1)
        ofText == matchWithContext(item.text, regex, 1)
    IN IF regex = <<>> THEN [status |-> "threw", snippets |-> <<>>]
       ELSE IF \E k \in 1..Len(regex) : regex[k] = <<>>
       THEN [status |-> "hangs", snippets |-> <<>>]
       ELSE [status |-> "returned",
             snippets |-> SubSeq(ofDescription, 1, Min(3, Len(ofDescription)))
                          \o SubSeq(ofText, 1, Min(3, Len(ofText)))]

\* snippets.js:9-18 extractSnippets(item, search).  A search without a token
\* makes str.match return null and searchToRegex throw; an empty alternative
\* (the token "") matches the empty string at a position that exec never
\* moves past, and the loop of matchWithContext does not end.
extractSnippets(item, search) ==
    LET regex == searchToRegex(search)
        snippets == matchWithContext(item.description, regex, 1)
                    \o matchWithContext(item.text, regex, 1)
    IN IF regex = <<>> THEN [status |-> "threw", snippets |-> <<>>]
       ELSE IF \E k \in 1..Len(regex) : regex[k] = <<>>
       THEN [status |-> "hangs", snippets |-> <<>>]
       ELSE [status |-> "returned",
             snippets |-> SubSeq(snippets, 1, Min(3, Len(snippets)))]

\* api.js:266-268: what queryItems attaches to an item as item.snippets
AttachSnippets(item, search) ==
    IF Len(normalizeSearchString(search)) > 0
    THEN Some(extractSnippets(item, Val(search)))
    ELSE None

\* String(undefined), the text regex.exec searches when the field is absent
UndefinedText == <<117, 110, 100, 101, 102, 105, 110, 101, 100>>

\* api.js:266-268 over a normalized item, whose description and text may be
\* absent: matchWithContext(undefined, regex) searches "undefined" and
\* throws at text.length on its first match
StagedSnippets(item, search) ==
    LET Staged(field) == IF field = None THEN UndefinedText ELSE Val(field)
        Ends(regex, undefinedMatches) ==
            LET emptyAlternative == \E k \in 1..Len(regex) : regex[k] = <<>>
                MatchesUndefined(field) ==
                    field = None /\ (emptyAlternative \/ undefinedMatches)
            IN IF regex = <<>> \/ MatchesUndefined(item.description) THEN "threw"
               ELSE IF emptyAlternative THEN "hangs"
               ELSE IF MatchesUndefined(item.text) THEN "threw"
               ELSE "returned"
        Outcome(regex) ==
            Ends(regex, matchWithContext(UndefinedText, regex, 1) # <<>>)
        Staging(status) ==
            IF status # "returned" THEN Some([status |-> status, snippets |-> <<>>])
            ELSE AttachSnippets([description |-> Staged(item.description),
                                 text |-> Staged(item.text)], search)
    IN IF Len(normalizeSearchString(search)) = 0 THEN None
       ELSE Staging(Outcome(searchToRegex(Val(search))))

(***************************************************************************)
(* api.js:238-330 queryItems, the pure parts.                              *)
(***************************************************************************)
\* api.js:262-265: an item of the upstream reply, normalized with its
\* description and text
StagedItem(raw, filters) ==
    normalizeOmekaFields(raw, Some(filters),
                         [NoInclude EXCEPT !.text = TRUE, !.description = TRUE])

\* api.js:266-268: item.snippets = extractSnippets(item, query.search), if
\* the search has a term
Annotated(item, staged) ==
    [item EXCEPT !.snippets = IF staged = None THEN None ELSE Some(Val(staged).snippets)]

\* api.js:269-270: delete item.text; delete item.description
Stripped(item) == [item EXCEPT !.text = None, !.description = None]

\* NormalizedItems without the two deletes
NormalizedItems_KeepsText(json, filters, search) ==
    [k \in 1..Len(json) |->
        Annotated(StagedItem(json[k], filters),
                  StagedSnippets(StagedItem(json[k], filters), search))]

\* api.js:261-273: the normalized items of the upstream reply, with their
\* snippets and without description and text
NormalizedItems(json, filters, search) ==
    [k \in 1..Len(json) |->
        Stripped(Annotated(StagedItem(json[k], filters),
                           StagedSnippets(StagedItem(json[k], filters), search)))]

\* the first status of a list that is not "returned", if there is one
FirstFailure(statuses) ==
    LET failing == {k \in DOMAIN statuses : statuses[k] # "returned"}
    IN IF failing = {} THEN "returned"
       ELSE statuses[CHOOSE k \in failing : \A j \in failing : k <= j]

\* how extractSnippets ends for an item
StatusOf(staged) == IF staged = None THEN "returned" ELSE Val(staged).status

\* api.js:266-268: how extractSnippets ends for the items of the reply, in
\* their order: "threw" or "hangs" at the first item for which it does not
\* return
SnippetsStatus(json, filters, search) ==
    FirstFailure([k \in 1..Len(json) |->
                     StatusOf(StagedSnippets(StagedItem(json[k], filters), search))])

\* HasNextPage with > for >=
HasNextPage_Strict(count, limit) == count > limit

\* api.js:275
HasNextPage(count, limit) == count >= limit

IsCreatorItem(item) == item.type = "creator"

\* IsObjectItem taking every item that is no creator
IsObjectItem_NotCreator(item) == item.type # "creator"

IsObjectItem(item) == item.type = "object"

\* api.js:282
IgnoreParts(id, query) == id = None /\ query.search = None

\* api.js:284-287
CreatorsIn(items) == Filter(items, IsCreatorItem)

ObjectsIn(items, ignoreParts) ==
    LET Kept(item) == IsObjectItem(item) /\ (~ignoreParts \/ ~item.isPart)
    IN Filter(items, Kept)

\* api.js:289-292
OwnCounts(items, ignoreParts) ==
    [creators |-> Len(CreatorsIn(items)), objects |-> Len(ObjectsIn(items, ignoreParts))]

\* CountsFor never replacing the counts of the page
CountsFor_KeepsOwn(hasNextPage, own, totalCounts) == own

\* api.js:294-298
CountsFor(hasNextPage, own, totalCounts) == IF hasNextPage THEN totalCounts ELSE own

\* api.js:300-329: the value stored and returned
ResultOf(c, counts) ==
    LET ignoreParts == IgnoreParts(c.id, c.query)
        creators == CreatorsIn(c.items)
        objects == ObjectsIn(c.items, ignoreParts)
        lang == LangOf(c.query)
        sortedCreators ==
            toSortedByTitle(IF c.options.removeCreators THEN <<>> ELSE creators, lang)
        sortedObjects == IF IsSome(c.id) THEN toSortedByTitle(objects, lang) ELSE objects
    IN [items |-> sortedObjects \o sortedCreators,
        filters |-> IF c.isFiltered THEN Some(normalizeItemFilters(c.items)) ELSE None,
        hasNextPage |-> c.hasNextPage,
        counts |-> counts]

\* api.js:302-322: a comparator is called while collators[lang] is undefined
SortThrows(c) ==
    LET ignoreParts == IgnoreParts(c.id, c.query)
        creators == IF c.options.removeCreators THEN <<>> ELSE CreatorsIn(c.items)
        objects == ObjectsIn(c.items, ignoreParts)
    IN /\ LangOf(c.query) \notin collators
       /\ \/ CompareCalled(creators)
          \/ IsSome(c.id) /\ CompareCalled(objects)

(***************************************************************************)
(* JS values of mixed shape.  {error: response} is a record with the one   *)
(* field error (the status of the response); the empty object and the      *)
(* empty array are the empty function <<>>.  A property read of a value    *)
(* that lacks the property gives undefined (None).                         *)
(***************************************************************************)
ErrorOf(status) == [error |-> status]

Empty == <<>>

IsError(v) == "error" \in DOMAIN v

ItemsOf(v) == IF "items" \in DOMAIN v THEN v.items ELSE None

MediaOf(v) == IF "media" \in DOMAIN v THEN v.media ELSE <<>>

\* the raw item GET /items/{id} answers with, if there is one
RawItemOf(id) == Filter(upstream, LAMBDA item : item.id = id)

(***************************************************************************)
(* api.js:200-217 getItem(id).                                             *)
(***************************************************************************)
\* api.js:201: the call from the function running at c, to continue at `back`
getItem_Enter(c, back) ==
    [c EXCEPT !.stack = <<back>> \o @, !.pc = "gi_gate", !.force = FALSE,
              !.cached = getCacheOf("item", Val(c.id))]

\* api.js:202-204: the cache hit, or the call of getFilters()
getItem_Gate(p) ==
    LET c == proc[p] IN
    /\ c.pc = "gi_gate"
    /\ proc' = [proc EXCEPT ![p] =
                   IF IsSome(c.cached) THEN Return(c, Val(c.cached))
                   ELSE Invoke(c, "gi_fetch", "gf_gate", "filters", FALSE)]
    /\ UNCHANGED <<upstream, cache, awaitingAllItems, orphans, stalled, out>>

\* api.js:205-216: getFilters() has returned; the item is requested, and the
\* reply is a failure (always, for an id upstream does not have) or the item
getItem_Fetch(p) ==
    LET c == [proc[p] EXCEPT !.sent = @ \cup {"items/id"}]
        filters == Val(c.val)
        found == RawItemOf(Val(c.id))
        item == normalizeOmekaFields(found[1], Some(filters),
                                     [NoInclude EXCEPT !.description = TRUE,
                                                       !.heroes = TRUE, !.items = TRUE])
    IN
    /\ proc[p].pc = "gi_fetch"
    /\ \E outcome \in Outcomes :
          IF outcome = "fail" \/ found = <<>>
          THEN /\ proc' = [proc EXCEPT ![p] =
                              Return([c EXCEPT !.nonOk = @ \cup {"getItem"},
                                               !.errored = @ \cup {"getItem"}],
                                     ErrorOf(IF found = <<>> THEN 404 ELSE 500))]
               /\ UNCHANGED cache
          ELSE /\ cache' = setCacheOf("item", Val(c.id), item)
               /\ proc' = [proc EXCEPT ![p] =
                              Return([c EXCEPT !.stored = @ \cup {"item"}], item)]
    /\ UNCHANGED <<upstream, awaitingAllItems, orphans, stalled, out>>

(***************************************************************************)
(* api.js:219-236 getItemDetails(id).  The details of the model are the    *)
(* ids of the media.                                                       *)
(***************************************************************************)
\* api.js:220: the call, up to the await of the cache read
getItemDetails_Call(p, id) ==
    /\ proc[p].pc = "idle"
    /\ proc' = [proc EXCEPT ![p] = [@ EXCEPT !.op = "getItemDetails", !.id = Some(id),
                                             !.pc = "gd_gate",
                                             !.cached = getCacheOf("details", id)]]
    /\ UNCHANGED <<upstream, cache, awaitingAllItems, orphans, stalled, out>>

\* api.js:221-222: the cache hit, or the call of getItem(id)
getItemDetails_Gate(p) ==
    LET c == proc[p] IN
    /\ c.pc = "gd_gate"
    /\ proc' = [proc EXCEPT ![p] =
                   IF IsSome(c.cached) THEN Return(c, Val(c.cached))
                   ELSE getItem_Enter(c, "gd_item")]
    /\ UNCHANGED <<upstream, cache, awaitingAllItems, orphans, stalled, out>>

\* api.js:224-226: getItem(id) has returned; without media the result is [],
\* otherwise the media are requested
getItemDetails_Item(p) ==
    LET c == proc[p]
        item == Val(c.val)
    IN
    /\ c.pc = "gd_item"
    /\ proc' = [proc EXCEPT ![p] =
                   IF Len(MediaOf(item)) < 1 THEN Return(c, Empty)
                   ELSE [c EXCEPT !.pc = "gd_fetch", !.sent = @ \cup {"media"}]]
    /\ UNCHANGED <<upstream, cache, awaitingAllItems, orphans, stalled, out>>

\* api.js:228-235: the reply to the media request
getItemDetails_Fetch(p) ==
    LET c == proc[p]
        details == [media |-> MediaOf(Val(c.val)), html |-> None]
    IN
    /\ c.pc = "gd_fetch"
    /\ \E outcome \in Outcomes :
          IF outcome = "fail"
          THEN /\ proc' = [proc EXCEPT ![p] =
                              Return([c EXCEPT !.nonOk = @ \cup {"getItemDetails"},
                                               !.errored = @ \cup {"getItemDetails"}],
                                     ErrorOf(500))]
               /\ UNCHANGED cache
          ELSE /\ cache' = setCacheOf("details", Val(c.id), details)
               /\ proc' = [proc EXCEPT ![p] =
                              Return([c EXCEPT !.stored = @ \cup {"details"}], details)]
    /\ UNCHANGED <<upstream, awaitingAllItems, orphans, stalled, out>>

(***************************************************************************)
(* api.js:238-330 queryItems(id, query, options).                          *)
(***************************************************************************)
\* api.js:249-250: parse the query and read its key
queryItems_Lookup(c) ==
    LET parsed == parseQuery(c.query)
    IN [c EXCEPT !.key = Some(parsed.queryString), !.isFiltered = parsed.isFiltered,
                 !.limit = parsed.limit, !.pc = "qi_gate",
                 !.cached = getCacheOf("query", parsed.queryString)]

\* api.js:243-250: the call, up to its first await: of getItem(id) if there
\* is an id, of the cache read otherwise
queryItems_Call(p, id, query, options) ==
    LET c == [proc[p] EXCEPT !.op = "queryItems", !.id = id, !.query = query,
                             !.options = options]
    IN
    /\ proc[p].pc = "idle"
    /\ proc' = [proc EXCEPT ![p] =
                   IF id # None THEN getItem_Enter(c, "qi_item") ELSE queryItems_Lookup(c)]
    /\ UNCHANGED <<upstream, cache, awaitingAllItems, orphans, stalled, out>>

\* queryItems_Item going on to the query whatever the items are
queryItems_Item_NoEarlyReturn(p) ==
    LET c == proc[p]
        items == ItemsOf(Val(c.val))
        list == IF items = None THEN <<>> ELSE Val(items)
        ids == [k \in 1..Len(list) |-> NatToStr(list[k])]
    IN
    /\ c.pc = "qi_item"
    /\ proc' = [proc EXCEPT ![p] = queryItems_Lookup([c EXCEPT !.query.id = Some(Join(ids))])]
    /\ UNCHANGED <<upstream, cache, awaitingAllItems, orphans, stalled, out>>

\* api.js:245-250: getItem(id) has returned; without items the result is {},
\* otherwise the items become query.id
queryItems_Item(p) ==
    LET c == proc[p]
        items == ItemsOf(Val(c.val))
        ids == [k \in 1..Len(Val(items)) |-> NatToStr(Val(items)[k])]
    IN
    /\ c.pc = "qi_item"
    /\ proc' = [proc EXCEPT ![p] =
                   IF items = None \/ Len(Val(items)) < 1 THEN Return(c, Empty)
                   ELSE queryItems_Lookup([c EXCEPT !.query.id = Some(Join(ids))])]
    /\ UNCHANGED <<upstream, cache, awaitingAllItems, orphans, stalled, out>>

\* queryItems_Gate searching upstream whatever the cache holds
queryItems_Gate_IgnoresCache(p) ==
    LET c == proc[p] IN
    /\ c.pc = "qi_gate"
    /\ proc' = [proc EXCEPT ![p] =
                   [c EXCEPT !.hit = IsSome(c.cached), !.pc = "qi_fetch", !.cached = None,
                             !.sent = @ \cup {"items?query"}]]
    /\ UNCHANGED <<upstream, cache, awaitingAllItems, orphans, stalled, out>>

\* api.js:251-255: the cache hit, or the upstream search is requested
queryItems_Gate(p) ==
    LET c == proc[p] IN
    /\ c.pc = "qi_gate"
    /\ proc' = [proc EXCEPT ![p] =
                   IF IsSome(c.cached) THEN Return([c EXCEPT !.hit = TRUE], Val(c.cached))
                   ELSE [c EXCEPT !.pc = "qi_fetch", !.sent = @ \cup {"items?query"}]]
    /\ UNCHANGED <<upstream, cache, awaitingAllItems, orphans, stalled, out>>

\* queryItems_Fetch storing the {error} it returns under the query's key
queryItems_Fetch_StoresError(p) ==
    LET c == proc[p] IN
    /\ c.pc = "qi_fetch"
    /\ \E outcome \in Outcomes :
          IF outcome = "fail"
          THEN /\ cache' = setCacheOf("query", Val(c.key), ErrorOf(500))
               /\ proc' = [proc EXCEPT ![p] =
                              Return([c EXCEPT !.nonOk = @ \cup {"queryItems"},
                                               !.errored = @ \cup {"queryItems"}],
                                     ErrorOf(500))]
          ELSE /\ proc' = [proc EXCEPT ![p] =
                              Invoke([c EXCEPT !.json = Some(Search(upstream, Val(c.key)))],
                                     "qi_map", "gf_gate", "filters", FALSE)]
               /\ UNCHANGED cache
    /\ UNCHANGED <<upstream, awaitingAllItems, orphans, stalled, out>>

\* api.js:257-258: the reply to the search: a failure, or the call of
\* getFilters()
queryItems_Fetch(p) ==
    LET c == proc[p] IN
    /\ c.pc = "qi_fetch"
    /\ \E outcome \in Outcomes :
          proc' = [proc EXCEPT ![p] =
                      IF outcome = "fail"
                      THEN Return([c EXCEPT !.nonOk = @ \cup {"queryItems"},
                                            !.errored = @ \cup {"queryItems"}],
                                  ErrorOf(500))
                      ELSE Invoke([c EXCEPT !.json = Some(Search(upstream, Val(c.key)))],
                                  "qi_map", "gf_gate", "filters", FALSE)]
    /\ UNCHANGED <<upstream, cache, awaitingAllItems, orphans, stalled, out>>

\* queryItems_Store writing the key only if it is absent
queryItems_Store_KeepsFirst(p, c, counts) ==
    LET result == ResultOf(c, counts) IN
    IF SortThrows(c)
    THEN /\ proc' = [proc EXCEPT ![p] = Throw(c)]
         /\ UNCHANGED cache
    ELSE /\ cache' = IF IsSome(getCacheOf("query", Val(c.key))) THEN cache
                     ELSE setCacheOf("query", Val(c.key), result)
         /\ proc' = [proc EXCEPT ![p] =
                        Return([c EXCEPT !.stored = @ \cup {"query"}], result)]

\* api.js:302-329: sort, which throws if a comparator is called for a language
\* without a collator; otherwise store the result under the query key and
\* return it
queryItems_Store(p, c, counts) ==
    LET result == ResultOf(c, counts) IN
    IF SortThrows(c)
    THEN /\ proc' = [proc EXCEPT ![p] = Throw(c)]
         /\ UNCHANGED cache
    ELSE /\ cache' = setCacheOf("query", Val(c.key), result)
         /\ proc' = [proc EXCEPT ![p] =
                        Return([c EXCEPT !.stored = @ \cup {"query"}], result)]

\* api.js:282-329, from the counts of the page on: with a next page
\* getCounts() is called, without one the result is complete
queryItems_Counts(p, c) ==
    LET own == OwnCounts(c.items, IgnoreParts(c.id, c.query))
        c1 == [c EXCEPT !.counts = own]
    IN IF c.hasNextPage
       THEN /\ proc' = [proc EXCEPT ![p] = Invoke(c1, "qi_total", "gc_gate", "counts", FALSE)]
            /\ UNCHANGED cache
       ELSE queryItems_Store(p, c1, own)

\* api.js:260-280: getFilters() has returned; normalize the reply and extract
\* the snippets, which may throw or never end; decide hasNextPage and, if
\* asked to, call getCreators()
queryItems_Map(p) ==
    LET c == proc[p]
        Mapped(items) == [c EXCEPT !.items = items,
                                   !.hasNextPage = HasNextPage(Len(items), c.limit)]
        Continue(status, c1) ==
            /\ status # "hangs"
            /\ IF status = "threw"
               THEN /\ proc' = [proc EXCEPT ![p] = Throw(c)]
                    /\ UNCHANGED cache
               ELSE IF c.options.retrieveCreators
               THEN /\ proc' = [proc EXCEPT ![p] =
                                   Invoke(c1, "qi_creators", "gcr_gate", "creators", FALSE)]
                    /\ UNCHANGED cache
               ELSE queryItems_Counts(p, c1)
    IN
    /\ c.pc = "qi_map"
    /\ Continue(SnippetsStatus(Val(c.json), Val(c.val), c.query.search),
                Mapped(NormalizedItems(Val(c.json), Val(c.val), c.query.search)))
    /\ UNCHANGED <<upstream, awaitingAllItems, orphans, stalled, out>>

\* api.js:279: getCreators() has returned; append the creators retrieved
queryItems_Creators(p) ==
    LET c == proc[p]
        c1 == [c EXCEPT !.items = @ \o retrieveCreators(@, Val(c.val), c.id)]
    IN
    /\ c.pc = "qi_creators"
    /\ queryItems_Counts(p, c1)
    /\ UNCHANGED <<upstream, awaitingAllItems, orphans, stalled, out>>

\* api.js:295-297: getCounts() has returned; its totals replace the counts
queryItems_Total(p) ==
    LET c == proc[p] IN
    /\ c.pc = "qi_total"
    /\ queryItems_Store(p, c, CountsFor(c.hasNextPage, c.counts, Val(c.val)))
    /\ UNCHANGED <<upstream, awaitingAllItems, orphans, stalled, out>>

(***************************************************************************)
(* api.js:332-354 queryCreators(query).                                    *)
(***************************************************************************)
\* api.js:332-333: the call, up to the await of getCreators()
queryCreators_Call(p, query) ==
    /\ proc[p].pc = "idle"
    /\ proc' = [proc EXCEPT ![p] =
                   Invoke([@ EXCEPT !.op = "queryCreators", !.query = query],
                          "qc_creators", "gcr_gate", "creators", FALSE)]
    /\ UNCHANGED <<upstream, cache, awaitingAllItems, orphans, stalled, out>>

\* api.js:333-336: getCreators() has returned; getCounts() is called
queryCreators_Creators(p) ==
    LET c == proc[p] IN
    /\ c.pc = "qc_creators"
    /\ proc' = [proc EXCEPT ![p] =
                   Invoke([c EXCEPT !.items = Val(c.val)],
                          "qc_counts", "gc_gate", "counts", FALSE)]
    /\ UNCHANGED <<upstream, cache, awaitingAllItems, orphans, stalled, out>>

\* api.js:336-353: getCounts() has returned; sort the creators, which throws
\* if the comparator is called for a language without a collator, and return
queryCreators_Counts(p) ==
    LET c == proc[p]
        lang == LangOf(c.query)
    IN
    /\ c.pc = "qc_counts"
    /\ proc' = [proc EXCEPT ![p] =
                   IF lang \notin collators /\ CompareCalled(c.items)
                   THEN Throw(c)
                   ELSE Return(c, [items |-> toSortedByTitle(c.items, lang),
                                   filters |-> None,
                                   hasNextPage |-> FALSE,
                                   counts |-> Val(c.val)])]
    /\ UNCHANGED <<upstream, cache, awaitingAllItems, orphans, stalled, out>>

(***************************************************************************)
(* api.js:383-405 getLastModified(ms, limit) and part_005:121-136 update.  *)
(* Time is counted in polling windows: an item of the reply was modified   *)
(* `elapsed` windows ago, and lies in the window if elapsed < ms.          *)
(***************************************************************************)
\* part_005:122 sets ms = 1000 * 60 * 1; here one window
ms == 1

\* part_005:123 sets itemLimit = 20; scaled down
itemLimit == 2

\* the items editors touch
Touched == {1, 3, 4}

\* What upstream can answer GET /items?sort_by=modified&sort_order=desc&
\* per_page={limit}&page=1 with: `limit` items (fewer if it has fewer), each
\* modified no later than the one before it.
ModifiedReplies(limit) ==
    LET n == Min(limit, Cardinality(Touched \cap IdsOf(upstream)))
    IN {reply \in [1..n -> [id : Touched \cap IdsOf(upstream), elapsed : {0, ms}]] :
           /\ \A i, j \in 1..n : i < j => /\ reply[i].id # reply[j].id
                                          /\ reply[i].elapsed <= reply[j].elapsed}

\* api.js:393-396: currentTime - itemTime < ms
InWindow(item) == item.elapsed < ms

\* api.js:398-402: delCache(`item:details:${id}`) for each modified item
RECURSIVE DelDetails(_, _)
DelDetails(store, modifiedItems) ==
    IF modifiedItems = <<>> THEN store
    ELSE DelDetails(delCacheOf(store, "details", Head(modifiedItems).id),
                    Tail(modifiedItems))

\* part_005:125 and api.js:384-386: update calls getLastModified, which
\* requests the most recently modified items
update_Call(p) ==
    /\ proc[p].pc = "idle"
    /\ proc' = [proc EXCEPT ![p] = [@ EXCEPT !.op = "update", !.pc = "lm_fetch",
                                             !.stack = <<"up_after">>,
                                             !.limit = itemLimit,
                                             !.sent = @ \cup {"items?modified"}]]
    /\ UNCHANGED <<upstream, cache, awaitingAllItems, orphans, stalled, out>>

\* getLastModified_Fetch deleting the details of every returned item
getLastModified_Fetch_EvictsAll(p) ==
    LET c == proc[p] IN
    /\ c.pc = "lm_fetch"
    /\ \E outcome \in Outcomes :
          IF outcome = "fail"
          THEN /\ proc' = [proc EXCEPT ![p] =
                              Return([c EXCEPT !.nonOk = @ \cup {"getLastModified"},
                                               !.errored = @ \cup {"getLastModified"}],
                                     ErrorOf(500))]
               /\ UNCHANGED cache
          ELSE \E items \in ModifiedReplies(c.limit) :
                  LET modifiedItems == Filter(items, InWindow) IN
                  /\ cache' = DelDetails(cache, items)
                  /\ proc' = [proc EXCEPT ![p] =
                                 Return([c EXCEPT !.json = Some(items),
                                                  !.items = modifiedItems,
                                                  !.deleted = @ \cup {"details"}],
                                        modifiedItems)]
    /\ UNCHANGED <<upstream, awaitingAllItems, orphans, stalled, out>>

\* api.js:386-404: the reply: a failure, or the items, of which those in the
\* window have their details deleted and are returned
getLastModified_Fetch(p) ==
    LET c == proc[p] IN
    /\ c.pc = "lm_fetch"
    /\ \E outcome \in Outcomes :
          IF outcome = "fail"
          THEN /\ proc' = [proc EXCEPT ![p] =
                              Return([c EXCEPT !.nonOk = @ \cup {"getLastModified"},
                                               !.errored = @ \cup {"getLastModified"}],
                                     ErrorOf(500))]
               /\ UNCHANGED cache
          ELSE \E items \in ModifiedReplies(c.limit) :
                  LET modifiedItems == Filter(items, InWindow) IN
                  /\ cache' = DelDetails(cache, modifiedItems)
                  /\ proc' = [proc EXCEPT ![p] =
                                 Return([c EXCEPT !.json = Some(items),
                                                  !.items = modifiedItems,
                                                  !.deleted =
                                                      IF modifiedItems = <<>> THEN @
                                                      ELSE @ \cup {"details"}],
                                        modifiedItems)]
    /\ UNCHANGED <<upstream, awaitingAllItems, orphans, stalled, out>>

\* api.js:407-409: flush() up to its first await, the call getAllItems(true)
flush_Enter(c) ==
    Invoke([c EXCEPT !.op = "flush", !.before = Some(cache)],
           "fl_flush", "ga_gate", "allItems", TRUE)

\* part_005:34-37: the route /flush calls flush()
flush_Call(p) ==
    /\ proc[p].pc = "idle"
    /\ proc' = [proc EXCEPT ![p] = flush_Enter(proc[p])]
    /\ UNCHANGED <<upstream, cache, awaitingAllItems, orphans, stalled, out>>

\* api.js:409: with the mirror fetched anew, flush evaluates flushCache(),
\* a name api.js neither imports (api.js:22) nor defines: a ReferenceError.
\* Lines 410-411 (setCache of the mirror, preload()) are never reached.
flush_Flush(p) ==
    /\ proc[p].pc = "fl_flush"
    /\ proc' = [proc EXCEPT ![p] = Throw(proc[p])]
    /\ UNCHANGED <<upstream, cache, awaitingAllItems, orphans, stalled, out>>

\* part_005:132: the 100 of the literal "query:per_page=100&page=1"; scaled
\* down as PAGE_LIMIT is
UpdatePerPage == 2

\* the literal with page 2 in the place of page 1
UpdateKey_SecondPage ==
    <<Part("per_page", 0, "", "", <<>>, UpdatePerPage), Part("page", 0, "", "", <<>>, 2)>>

\* part_005:132: the literal key "per_page=100&page=1" of the family query:
UpdateKey ==
    <<Part("per_page", 0, "", "", <<>>, UpdatePerPage), Part("page", 0, "", "", <<>>, 1)>>

\* update_After taking an {error} for a full batch
update_After_FlushesOnError(p, flusher, timer) ==
    LET c == proc[p]
        modifiedItems == Val(c.val)
        failed == "getLastModified" \in c.errored    \* the value is an {error}
        length == IF failed THEN None ELSE Some(Len(modifiedItems))
        flushes == failed \/ length = Some(itemLimit)
        deletes == length # None /\ Val(length) > 0
    IN
    /\ c.pc = "up_after"
    /\ proc[timer].pc = "idle"
    /\ flushes => proc[flusher].pc = "idle"
    /\ cache' = IF deletes THEN delCacheOf(cache, "query", UpdateKey) ELSE cache
    /\ proc' = [proc EXCEPT
                   ![p] = Return([c EXCEPT
                                     !.called = @ \cup (IF flushes THEN {"flush"} ELSE {})
                                                  \cup {"setTimeout(preloadFilters)"},
                                     !.deleted = IF deletes THEN @ \cup {"query"} ELSE @,
                                     !.before = Some(cache)],
                                 Empty),
                   ![flusher] = IF flushes THEN flush_Enter(@) ELSE @,
                   ![timer] = [@ EXCEPT !.op = "preloadFilters", !.pc = "scheduled"]]
    /\ UNCHANGED <<upstream, awaitingAllItems, orphans, stalled, out>>

\* part_005:127-135: update with the poll's result: flush() is started, and
\* not awaited, if as many items as were asked for are modified; the first
\* page is deleted if any is; and preloadFilters(true) is scheduled.  Of an
\* {error} the length is undefined and both conditions are false.
update_After(p, flusher, timer) ==
    LET c == proc[p]
        modifiedItems == Val(c.val)
        failed == "getLastModified" \in c.errored    \* the value is an {error}
        length == IF failed THEN None ELSE Some(Len(modifiedItems))
        flushes == length = Some(itemLimit)
        deletes == length # None /\ Val(length) > 0
    IN
    /\ c.pc = "up_after"
    /\ proc[timer].pc = "idle"
    /\ flushes => proc[flusher].pc = "idle"
    /\ cache' = IF deletes THEN delCacheOf(cache, "query", UpdateKey) ELSE cache
    /\ proc' = [proc EXCEPT
                   ![p] = Return([c EXCEPT
                                     !.called = @ \cup (IF flushes THEN {"flush"} ELSE {})
                                                  \cup {"setTimeout(preloadFilters)"},
                                     !.deleted = IF deletes THEN @ \cup {"query"} ELSE @,
                                     !.before = Some(cache)],
                                 Empty),
                   ![flusher] = IF flushes THEN flush_Enter(@) ELSE @,
                   ![timer] = [@ EXCEPT !.op = "preloadFilters", !.pc = "scheduled"]]
    /\ UNCHANGED <<upstream, awaitingAllItems, orphans, stalled, out>>

(***************************************************************************)
(* The collection used by the concurrent specifications: a creator, a      *)
(* category, an object and a part, the creator listing its two works.      *)
(***************************************************************************)
Catalogue ==
    << WithReverse(RawItem(1, <<"o:Item", "foaf:Person">>, FALSE,
                           <<>>, <<>>, <<>>, <<>>, 0), <<3, 4>>),
       RawItem(2, <<"o:Item", "skos:Concept">>, FALSE, <<>>, <<>>, <<>>, <<>>, 0),
       RawItem(3, <<"o:Item">>, FALSE, <<1>>, <<2>>, <<>>, <<>>, 1990),
       RawItem(4, <<"o:Item">>, TRUE, <<1>>, <<2>>, <<>>, <<>>, 1991) >>

Collections == {SubSeq(Catalogue, 1, n) : n \in 0..Len(Catalogue)}

(***************************************************************************)
(* The mirror specification: NCallers concurrent callers of               *)
(* getAllItems(force), the safety timeouts and the expiry of the mirror.   *)
(* (getFilters, getCreators and getCounts reach getAllItems in the query   *)
(* specification below.)                                                   *)
(***************************************************************************)
Init ==
    /\ upstream \in Collections
    /\ cache = EmptyCache
    /\ awaitingAllItems = FALSE
    /\ proc = [p \in 1..NCallers |-> Idle]
    /\ orphans = 0
    /\ stalled = FALSE
    /\ out = None

Next ==
    \/ \E p \in Callers, force \in BOOLEAN : getAllItems_Call(p, force)
    \/ \E p \in Callers : getAllItems_Gate(p)
    \/ \E p \in Callers : getAllItems_Wait(p)
    \/ \E p \in Callers : getAllItems_Page(p)
    \/ \E p \in Callers : SafetyTimeout(p)
    \/ OrphanTimeout
    \/ \E p \in Callers : Finish(p)
    \/ Expire("allItems")

Spec == Init /\ [][Next]_vars

(***************************************************************************)
(* Claims about the mirror fetch.                                          *)
(***************************************************************************)
InLoop == {p \in Callers : proc[p].pc = "ga_fetch"}

\* the gate of p has read no usable mirror and finds the flag set
FindsFetchInFlight(p) ==
    /\ proc[p].pc = "ga_gate"
    /\ ~(IsSome(proc[p].cached) /\ ~proc[p].force)
    /\ awaitingAllItems

\* C1 as stated: under any interleaving of getAllItems calls at most one call
\* is inside the upstream paging loop.
C1_AtMostOneInLoop == Cardinality(InLoop) <= 1

\* what a call that finds a fetch in flight does next: it waits, having made
\* no page request, and after the wait reads "allItems" again, not forced
WaitsAndRereads(p) ==
    /\ FindsFetchInFlight(p) /\ proc'[p].pc # proc[p].pc
          => proc'[p].pc = "ga_wait" /\ proc'[p].requests = proc[p].requests
    /\ proc[p].pc = "ga_wait" /\ proc'[p].pc # proc[p].pc
          => /\ proc'[p].pc = "ga_gate"
             /\ ~proc'[p].force
             /\ proc'[p].cached = cache.allItems
             /\ proc'[p].requests = proc[p].requests

\* C1, amended: as long as no safety timeout has fired while its own fetch was
\* still paging, at most one call is inside the paging loop; and a call that
\* finds a fetch in flight makes no page request of its own but waits and then
\* reads the "allItems" cache again.
C1_SingleFlightUnlessStalled ==
    /\ [](~stalled => C1_AtMostOneInLoop)
    /\ [][\A p \in Callers : WaitsAndRereads(p)]_vars

\* C1, witness: one call pages while another, having found the flag set, waits
C1_Witness ==
    /\ ~stalled
    /\ \E p, q \in Callers :
          /\ proc[p].pc = "ga_fetch" /\ proc[p].page > 1
          /\ proc[q].pc = "ga_wait"

\* C2: every value stored under "allItems" is the concatenation of all pages
\* of one complete paging pass (the whole collection), and a call that an
\* upstream failure made throw has written nothing under "allItems".
C2_NoPartialMirror ==
    /\ IsSome(cache.allItems) => Val(cache.allItems) = upstream
    /\ \A p \in Callers : proc[p].pc = "threw" => ~proc[p].wrote

\* C2, witness: a call threw on a later page, after fetching a non-empty
\* page, and "allItems" is absent
C2_Witness ==
    /\ cache.allItems = None
    /\ \E p \in Callers : proc[p].pc = "threw" /\ proc[p].requests >= 2

\* the pages of PAGE_LIMIT items that hold n items, the last one short
PagesHolding(n) == (n + PAGE_LIMIT - 1) \div PAGE_LIMIT

\* C11 as stated: a mirror fetch over a collection whose last page is short
\* stores all of its items and has then made exactly as many upstream requests
\* as there are pages with items (pages of 100, 100 and 47 items: 247 items,
\* 3 requests).
C11_StopsAtShortPage ==
    \A p \in Callers :
        ( /\ proc[p].pc = "done" /\ proc[p].wrote
          /\ Len(Val(proc[p].val)) % PAGE_LIMIT # 0 )
        => /\ Val(proc[p].val) = upstream
           /\ proc[p].requests = PagesHolding(Len(upstream))

\* C29: getAllItems(force = false) that finds "allItems" in the cache
\* returns the cached mirror in its next turn: it makes no upstream request,
\* arms no timeout, and that turn leaves the in-flight flag and the cache as
\* they are.
C29_HitReturnsAtOnce ==
    [][\A p \in Callers :
          /\ ( /\ proc[p].pc = "idle" /\ proc'[p].pc = "ga_gate" )
             => proc'[p].cached = cache.allItems
          /\ ( /\ proc[p].pc = "ga_gate" /\ ~proc[p].force
               /\ IsSome(proc[p].cached)
               /\ proc'[p].pc # proc[p].pc )
             => /\ proc'[p].pc = "done"
                /\ proc'[p].val = proc[p].cached
                /\ proc'[p].requests = proc[p].requests
                /\ ~proc'[p].timeout /\ ~proc'[p].wrote
                /\ awaitingAllItems' = awaitingAllItems
                /\ cache' = cache]_vars

\* a call has returned the mirror of a collection that is not empty without
\* a request of its own, while another call's fetch holds the flag
C29_Witness ==
    \E p, q \in Callers :
       /\ proc[p].pc = "done" /\ proc[p].requests = 0 /\ ~proc[p].wrote
       /\ proc[p].val = Some(upstream) /\ upstream # <<>>
       /\ proc[q].pc = "ga_fetch" /\ awaitingAllItems

(***************************************************************************)
(* The mirror specification with a finite load and the scheduling of the   *)
(* event loop: a call that can take its next turn takes it, and an armed   *)
(* timeout fires.  Nothing makes upstream answer, so a fetch may stall in  *)
(* its loop for ever, and nothing makes a caller call.                     *)
(***************************************************************************)
InitLive ==
    /\ upstream \in Collections
    /\ cache = EmptyCache
    /\ awaitingAllItems = FALSE
    /\ proc = [p \in 1..NCallers |-> Idle]
    /\ orphans = 0
    /\ stalled = FALSE
    /\ out = <<>>

\* a caller calls getAllItems(force); `out` counts the calls made
CallLive(p) ==
    /\ Len(out) < MaxCalls
    /\ \E force \in BOOLEAN :
          /\ proc[p].pc = "idle"
          /\ proc' = [proc EXCEPT ![p] = Enter([@ EXCEPT !.op = "getAllItems"],
                                                "ga_gate", "allItems", force)]
    /\ out' = Append(out, p)
    /\ UNCHANGED <<upstream, cache, awaitingAllItems, orphans, stalled>>

NextLive ==
    \/ \E p \in 1..NCallers :
          \/ CallLive(p)
          \/ getAllItems_Gate(p)
          \/ getAllItems_Wait(p)
          \/ getAllItems_Page(p)
          \/ SafetyTimeout(p)
          \/ Finish(p)
    \/ OrphanTimeout
    \/ Expire("allItems")

SpecLive ==
    /\ InitLive
    /\ [][NextLive]_vars
    /\ \A p \in 1..NCallers : /\ WF_vars(getAllItems_Gate(p))
                              /\ WF_vars(getAllItems_Wait(p))
                              /\ WF_vars(SafetyTimeout(p))
    /\ WF_vars(OrphanTimeout)

\* C18: no permanent lockout: the flag, whenever set, is cleared again, also
\* when the fetch that set it stalls or has thrown, and every caller that
\* waits on the flag comes to return the mirror or to start its own fetch.
C18_NoPermanentLockout ==
    /\ awaitingAllItems ~> ~awaitingAllItems
    /\ \A p \in 1..NCallers :
          (proc[p].pc = "ga_wait") ~> (proc[p].pc \in {"ga_fetch", "done"})

\* a caller waits on the flag that a call which has thrown left set, with
\* only that call's timeout to clear it
C18_Witness ==
    \E p, q \in 1..NCallers :
       /\ proc[p].pc = "ga_wait"
       /\ awaitingAllItems
       /\ proc[q].pc = "threw" /\ proc[q].timeout
       /\ orphans = 0

(***************************************************************************)
(* The query specification: one client at a time is served queryItems and  *)
(* getItemDetails requests, up to MaxCalls of them, over a collection of   *)
(* two creators (1 "b" and 10 "a", the second a pupil of the first), a     *)
(* category, an object "d" by both creators with a medium, a text and a    *)
(* description, and a part "c" by the first creator with a medium.  Item 5 *)
(* does not exist.                                                         *)
(***************************************************************************)
QueryCatalogue ==
    << WithTitle(WithReverse(RawItem(1, <<"o:Item", "foaf:Person">>, FALSE,
                                     <<>>, <<>>, <<>>, <<>>, 0), <<3, 4, 10>>), <<98>>),
       RawItem(2, <<"o:Item", "skos:Concept">>, FALSE, <<>>, <<>>, <<>>, <<>>, 0),
       WithDescription(
           WithTitle(WithText(WithMedia(RawItem(3, <<"o:Item">>, FALSE,
                                                <<1, 10>>, <<2>>, <<>>, <<>>, 1990), <<7>>),
                              <<97, 98, 99>>), <<100>>),
           <<97, 32, 97, 98, 99>>),
       WithTitle(WithMedia(RawItem(4, <<"o:Item">>, TRUE,
                                   <<1>>, <<2>>, <<>>, <<>>, 1991), <<8>>), <<99>>),
       WithTitle(WithReverse(RawItem(10, <<"o:Item", "foaf:Person">>, FALSE,
                                     <<1>>, <<>>, <<>>, <<>>, 0), <<3>>), <<97>>) >>

\* part_005:103-106: the options of the item page without query parameters
MainPageOptions == [retrieveCreators |-> FALSE, removeCreators |-> TRUE]

Request(op, id, query, options) ==
    [op |-> op, id |-> id, query |-> query, options |-> options]

Requests ==
    { Request("queryItems", None, EmptyQuery, DefaultOptions),
      Request("queryItems", None, [EmptyQuery EXCEPT !.limit = Some(5)], DefaultOptions),
      Request("queryItems", None,
              [EmptyQuery EXCEPT !.creator = Some(Join(<<NatToStr(1), NatToStr(10)>>)),
                                 !.year = Some(Join(<<NatToStr(199), NatToStr(19)>>))],
              DefaultOptions),
      Request("queryItems", None,
              [EmptyQuery EXCEPT !.creator = Some(Join(<<NatToStr(10), NatToStr(1)>>)),
                                 !.year = Some(Join(<<NatToStr(19), NatToStr(199)>>))],
              DefaultOptions),
      Request("queryItems", None,
              [EmptyQuery EXCEPT !.creator = Some(NatToStr(1)), !.limit = Some(3)],
              DefaultOptions),
      Request("queryItems", None,
              [EmptyQuery EXCEPT !.creator = Some(NatToStr(10)), !.limit = Some(2)],
              DefaultOptions),
      Request("queryItems", None,
              [EmptyQuery EXCEPT !.search = Some(<<97, 98, 99>>)], DefaultOptions),
      Request("queryItems", Some(1), EmptyQuery, MainPageOptions),
      Request("queryItems", Some(1), EmptyQuery, DefaultOptions),
      Request("queryItems", Some(4), EmptyQuery, DefaultOptions),
      Request("queryItems", Some(5), EmptyQuery, DefaultOptions),
      Request("getItemDetails", Some(3), EmptyQuery, DefaultOptions),
      Request("getItemDetails", Some(5), EmptyQuery, DefaultOptions) }

InitQuery ==
    /\ upstream = QueryCatalogue
    /\ cache = EmptyCache
    /\ awaitingAllItems = FALSE
    /\ proc = [p \in {1} |-> Idle]
    /\ orphans = 0
    /\ stalled = FALSE
    /\ out = <<>>

\* part_005:84-107: a route handler calls the core function for a request
Serve(p) ==
    /\ Len(out) < MaxCalls
    /\ \E r \in Requests :
          IF r.op = "queryItems" THEN queryItems_Call(p, r.id, r.query, r.options)
          ELSE getItemDetails_Call(p, Val(r.id))

\* part_005:85-107: the call has ended and the handler replies; `out` keeps
\* what was asked and what came of it.  A timeout left armed stays armed.
Reply(p) ==
    LET c == proc[p] IN
    /\ c.pc \in {"done", "threw"}
    /\ out' = Append(out, [op |-> c.op, id |-> c.id, query |-> c.query,
                           options |-> c.options, key |-> c.key, val |-> c.val,
                           hit |-> c.hit, limit |-> c.limit,
                           count |-> IF c.json = None THEN None
                                     ELSE Some(Len(Val(c.json)))])
    /\ IF c.timeout
       THEN orphans < MaxOrphans /\ orphans' = orphans + 1
       ELSE UNCHANGED orphans
    /\ proc' = [proc EXCEPT ![p] = Idle]
    /\ UNCHANGED <<upstream, cache, awaitingAllItems, stalled>>

NextQuery ==
    \/ \E p \in Callers :
          \/ Serve(p)
          \/ getItem_Gate(p)
          \/ getItem_Fetch(p)
          \/ getItemDetails_Gate(p)
          \/ getItemDetails_Item(p)
          \/ getItemDetails_Fetch(p)
          \/ queryItems_Item(p)
          \/ queryItems_Gate(p)
          \/ queryItems_Fetch(p)
          \/ queryItems_Map(p)
          \/ queryItems_Creators(p)
          \/ queryItems_Total(p)
          \/ getFilters_Gate(p)
          \/ getFilters_Compute(p)
          \/ getCreators_Gate(p)
          \/ getCreators_Compute(p)
          \/ getCounts_Gate(p)
          \/ getCounts_Compute(p)
          \/ getAllItems_Gate(p)
          \/ getAllItems_Wait(p)
          \/ getAllItems_Page(p)
          \/ SafetyTimeout(p)
          \/ Reply(p)
    \/ OrphanTimeout
    \/ \E id \in {1} : ExpireOf("item", id)

SpecQuery == InitQuery /\ [][NextQuery]_vars

(***************************************************************************)
(* Claims about queries.                                                   *)
(***************************************************************************)
\* a value of the shape queryItems stores
IsResult(val) == val # None /\ "hasNextPage" \in DOMAIN Val(val)

\* the ended calls of queryItems that computed their result
Computed == {p \in Callers : /\ proc[p].pc = "done"
                             /\ proc[p].op = "queryItems"
                             /\ ~proc[p].hit
                             /\ IsResult(proc[p].val)}

\* the ended calls of queryItems that found their query key in the cache
Hits == {p \in Callers : proc[p].pc = "done" /\ proc[p].op = "queryItems" /\ proc[p].hit}

Occurrences(strs, str) == Cardinality({k \in 1..Len(strs) : strs[k] = str})

\* the same comma-separated values, in any order
SameValues(a, b) ==
    /\ (a = None) = (b = None)
    /\ a # None =>
          \A str \in {Split(Val(a))[k] : k \in 1..Len(Split(Val(a)))}
                 \cup {Split(Val(b))[k] : k \in 1..Len(Split(Val(b)))} :
              Occurrences(Split(Val(a)), str) = Occurrences(Split(Val(b)), str)

\* two query objects that differ at most in the order of the values of a facet
Permuted(q1, q2) ==
    /\ \A k \in 1..Len(FacetKeys) : SameValues(q1[FacetKeys[k]], q2[FacetKeys[k]])
    /\ \A field \in {"search", "id", "limit", "page"} : q1[field] = q2[field]

\* C3: two queryItems calls with the same id and options whose query objects
\* differ only in the order of the comma-separated values of the facet keys
\* get the same queryString from parseQuery, use the same cache key, and return
\* identical results.
C3_CanonicalQueryKey ==
    \A i, j \in 1..Len(out) :
        ( /\ out[i].op = "queryItems" /\ out[j].op = "queryItems"
          /\ out[i].id = out[j].id /\ out[i].options = out[j].options
          /\ Permuted(out[i].query, out[j].query) )
        => /\ parseQuery(out[i].query).queryString = parseQuery(out[j].query).queryString
           /\ (out[i].key # None /\ out[j].key # None => out[i].key = out[j].key)
           /\ (IsResult(out[i].val) /\ IsResult(out[j].val) => out[i].val = out[j].val)

\* C3, witness: a query with two facets of two values each was computed and
\* stored, and the query with both value lists reversed was then served from
\* that entry.
C3_Witness ==
    \E i, j \in 1..Len(out) :
        /\ i < j
        /\ out[i].query # out[j].query
        /\ Permuted(out[i].query, out[j].query)
        /\ IsResult(out[i].val) /\ ~out[i].hit
        /\ IsResult(out[j].val) /\ out[j].hit

\* C4 as stated: a queryItems call that found its query key in the cache
\* returned the cached value, requested nothing from upstream and wrote no key.
C4_HitTouchesNothing ==
    \A p \in Hits :
        /\ proc[p].val = getCacheOf("query", Val(proc[p].key))
        /\ proc[p].sent = {}
        /\ proc[p].stored = {}

\* C4, amended: a queryItems call that found its query key in the cache
\* returned the cached value, did not request the upstream search and did not
\* write the query key; without an id it requested nothing and wrote nothing;
\* with an id, getItem(id) ran first and whatever was requested or written
\* was requested or written by it (the item, and through getFilters the
\* facets and the mirror).
C4_HitFrame ==
    \A p \in Hits :
        /\ proc[p].val = getCacheOf("query", Val(proc[p].key))
        /\ "items?query" \notin proc[p].sent
        /\ "query" \notin proc[p].stored
        /\ proc[p].id = None => proc[p].sent = {} /\ proc[p].stored = {}
        /\ proc[p].sent \subseteq {"items/id", "items?page"}
        /\ proc[p].stored \subseteq {"item", "filters", "allItems"}

\* C4, witness: a call with an id found its query key in the cache after it
\* had fetched the parent item again and written it under "item:{id}".
C4_Witness ==
    \E p \in Hits : "items/id" \in proc[p].sent /\ "item" \in proc[p].stored

\* C5 as stated: a call of queryItems(id, ...) or getItemDetails(id) whose
\* getItem(id) received a failed response for the parent item returns an
\* {error} value.
C5_ErrorForwarded ==
    \A p \in Callers :
        ( /\ proc[p].pc = "done"
          /\ proc[p].op \in {"queryItems", "getItemDetails"}
          /\ "getItem" \in proc[p].nonOk )
        => IsError(Val(proc[p].val))

\* C6 as stated: every function that received a failed upstream response
\* returned {error: response}, and none threw.
C6_NonOkReturnsError ==
    \A p \in Callers :
        /\ proc[p].nonOk \subseteq proc[p].errored
        /\ proc[p].nonOk # {} => proc[p].pc # "threw"

\* C7: the hasNextPage of every result queryItems computed (on a cache miss)
\* is true exactly if upstream returned at least `limit` items, whatever
\* creators were appended afterwards.
C7_HasNextPage ==
    \A p \in Computed :
        /\ IsSome(proc[p].query.limit) => proc[p].limit = Val(proc[p].query.limit)
        /\ Val(proc[p].val).hasNextPage = (Len(Val(proc[p].json)) >= proc[p].limit)

\* C7, witness: a result with exactly `limit` upstream items and hasNextPage
\* true has been delivered, and a call has ended whose upstream items were
\* fewer than the limit, whose items with the appended creators were not, and
\* whose hasNextPage is false.
C7_Witness ==
    /\ \E i \in 1..Len(out) :
          /\ IsResult(out[i].val) /\ ~out[i].hit
          /\ out[i].count = Some(out[i].limit)
          /\ Val(out[i].val).hasNextPage
    /\ \E p \in Computed :
          /\ Len(Val(proc[p].json)) < proc[p].limit
          /\ Len(proc[p].items) >= proc[p].limit
          /\ ~Val(proc[p].val).hasNextPage

\* C8 as stated: in a result queryItems computed, the counts are the totals of
\* getCounts() if hasNextPage is true, and otherwise the numbers of creators
\* and of objects among the items of the result.
C8_CountsOfResult ==
    \A p \in Computed :
        LET result == Val(proc[p].val) IN
        IF result.hasNextPage THEN Some(result.counts) = cache.counts
        ELSE /\ result.counts.creators = Len(CreatorsIn(result.items))
             /\ result.counts.objects = Len(Filter(result.items, IsObjectItem))

\* C8, amended: in a result queryItems computed, the counts are the totals of
\* getCounts() if hasNextPage is true; otherwise counts.objects is the number
\* of objects among the items of the result, and counts.creators the number of
\* creators among the normalized upstream items and the appended creators,
\* which are the creators of the result unless options.removeCreators took
\* them out of its items.
C8_CountsOfWorkingSet ==
    \A p \in Computed :
        LET result == Val(proc[p].val) IN
        IF result.hasNextPage THEN Some(result.counts) = cache.counts
        ELSE /\ result.counts.objects = Len(Filter(result.items, IsObjectItem))
             /\ result.counts.creators = Len(CreatorsIn(proc[p].items))
             /\ ~proc[p].options.removeCreators
                   => result.counts.creators = Len(CreatorsIn(result.items))
             /\ proc[p].options.removeCreators => CreatorsIn(result.items) = <<>>

\* C8, witness: a result without a next page, computed with removeCreators,
\* counts a creator that is not among its items; and a result with a next
\* page, whose own counts differ from the totals, has been delivered.
C8_Witness ==
    /\ \E p \in Computed :
          /\ ~Val(proc[p].val).hasNextPage
          /\ proc[p].options.removeCreators
          /\ Val(proc[p].val).counts.creators > 0
    /\ \E i \in 1..Len(out) :
          /\ IsResult(out[i].val) /\ ~out[i].hit
          /\ Val(out[i].val).hasNextPage

IsEmpty(v) == DOMAIN v = {}

\* the ended calls of queryItems(id, ...) whose getItem(id) returned the parent
\* item, the parent having no linked items
EmptyScope ==
    {p \in Callers : /\ proc[p].pc = "done" /\ proc[p].op = "queryItems"
                     /\ proc[p].id # None
                     /\ "getItem" \notin proc[p].errored
                     /\ RawItemOf(Val(proc[p].id)) # <<>>
                     /\ RawItemOf(Val(proc[p].id))[1].reverse = <<>>}

\* C12 as stated: a queryItems call for a parent without linked items returns
\* an empty result, has requested no items listing from upstream and has
\* written no query key.
C12_EmptyScopeNoListing ==
    \A p \in EmptyScope :
        /\ IsEmpty(Val(proc[p].val))
        /\ proc[p].sent \cap {"items?query", "items?page"} = {}
        /\ "query" \notin proc[p].stored

\* C12, amended: a queryItems call for a parent without linked items returns
\* an empty result without parsing the query, has not requested the upstream
\* search and has written no query key; what it requested and wrote, getItem
\* requested and wrote while resolving the parent (the item, and through
\* getFilters the pages of the mirror).
C12_EmptyScope ==
    \A p \in EmptyScope :
        /\ IsEmpty(Val(proc[p].val))
        /\ proc[p].key = None
        /\ "items?query" \notin proc[p].sent
        /\ "query" \notin proc[p].stored
        /\ proc[p].sent \subseteq {"items/id", "items?page"}
        /\ proc[p].stored \subseteq {"item", "filters", "allItems"}

\* C12, witness: such a call has ended after getItem, finding no facets
\* cached, paged the mirror.
C12_Witness == \E p \in EmptyScope : "items?page" \in proc[p].sent

(***************************************************************************)
(* The invalidation specification: the server is up, its cache holds the   *)
(* details of two items and one item, and the mirror and what is computed  *)
(* of it or not; update runs as part_005:173 starts it, while a client     *)
(* asks for the unfiltered first page or for a flush.                      *)
(***************************************************************************)
\* api.js:173-208: what getItem(id) stores under item:{id}
ItemEntry(id) ==
    [key |-> id,
     value |-> normalizeOmekaFields(RawItemOf(id)[1], Some(FiltersOf(upstream)),
                                    [NoInclude EXCEPT !.description = TRUE,
                                                      !.heroes = TRUE, !.items = TRUE])]

\* api.js:219-236: what getItemDetails(id) stores under item:details:{id}
DetailsEntry(id) ==
    [key |-> id, value |-> [media |-> MediaOf(ItemEntry(id).value), html |-> None]]

\* the cache after preload() (part_005:142-146) has run to its end
WarmCache ==
    [EmptyCache EXCEPT !.allItems = Some(upstream),
                       !.filters = Some(FiltersOf(upstream)),
                       !.creators = Some(CreatorsOf(upstream)),
                       !.counts = Some(CountsOf(upstream))]

InitUpdate ==
    /\ upstream = QueryCatalogue
    /\ \E store \in {EmptyCache, WarmCache} :
          cache = [store EXCEPT !.details = {DetailsEntry(3), DetailsEntry(4)},
                                !.item = {ItemEntry(3)}]
    /\ awaitingAllItems = FALSE
    /\ proc = [p \in {"update", "flush", "timer", "client"} |-> Idle]
    /\ orphans = 0
    /\ stalled = FALSE
    /\ out = <<>>

\* part_005:34-37, 84-89: the route handlers /flush and /query
ServeUpdate(p) ==
    \/ queryItems_Call(p, None, EmptyQuery, DefaultOptions)
    \/ flush_Call(p)

NextUpdate ==
    \/ update_Call("update")
    \/ update_After("update", "flush", "timer")
    \/ ServeUpdate("client")
    \/ Finish("client")
    \/ \E p \in Callers :
          \/ getLastModified_Fetch(p)
          \/ flush_Flush(p)
          \/ queryItems_Gate(p)
          \/ queryItems_Fetch(p)
          \/ queryItems_Map(p)
          \/ queryItems_Creators(p)
          \/ queryItems_Total(p)
          \/ getFilters_Gate(p)
          \/ getFilters_Compute(p)
          \/ getCreators_Gate(p)
          \/ getCreators_Compute(p)
          \/ getCounts_Gate(p)
          \/ getCounts_Compute(p)
          \/ getAllItems_Gate(p)
          \/ getAllItems_Wait(p)
          \/ getAllItems_Page(p)
          \/ SafetyTimeout(p)
    \/ OrphanTimeout

SpecUpdate == InitUpdate /\ [][NextUpdate]_vars

(***************************************************************************)
(* Claims about the invalidation poll, update and flush.                   *)
(***************************************************************************)
KeysOf(entries) == {e.key : e \in entries}

\* the ids of the items of a reply that were modified within the window
ModifiedWithin(reply) ==
    {reply[i].id : i \in {k \in 1..Len(reply) : reply[k].elapsed < ms}}

\* C13: one poll (getLastModified) deletes item:details:{id} for exactly the
\* returned items modified within the window (now - modified < ms) and
\* deletes or changes no other cache key: the item:{id} entries, the details
\* of returned items outside the window and of items not returned stay; a
\* poll that upstream fails leaves the cache as it is.
C13_EvictsModifiedDetails ==
    [][\A p \in Callers :
          (proc[p].pc = "lm_fetch" /\ proc'[p].pc # "lm_fetch")
          => IF "getLastModified" \in proc'[p].errored
             THEN cache' = cache
             ELSE cache' = [cache EXCEPT
                               !.details = {e \in @ : e.key \notin
                                               ModifiedWithin(Val(proc'[p].json))}]]_vars

\* a poll has returned two items that both had details cached, the first
\* modified within the window and the second not: the first item's details
\* are gone, the second's and the entry item:3 are still there
C13_Witness ==
    \E p \in Callers :
       /\ proc[p].pc = "up_after"
       /\ proc[p].json # None
       /\ LET reply == Val(proc[p].json) IN
          /\ Len(reply) = 2
          /\ {reply[1].id, reply[2].id} = {3, 4}
          /\ reply[1].elapsed < ms
          /\ reply[2].elapsed >= ms
          /\ reply[1].id \notin KeysOf(cache.details)
          /\ DetailsEntry(reply[2].id) \in cache.details
          /\ ItemEntry(3) \in cache.item

\* C14 as stated: when the poll asked for N items and upstream returned
\* exactly N, update starts a full flush, whatever number of them lies in
\* the window, and evicts nothing selectively.
C14_FullBatchFlushes ==
    \A p \in Callers :
       ( /\ proc[p].op = "update" /\ proc[p].pc = "done"
         /\ proc[p].json # None
         /\ Len(Val(proc[p].json)) = itemLimit )
       => /\ "flush" \in proc[p].called
          /\ proc[p].deleted = {}

\* the key queryItems(null, {}) writes its result under
FirstPageKey == parseQuery(EmptyQuery).queryString

C16_Reschedules ==
    \A p \in Callers :
       (proc[p].op = "update" /\ proc[p].pc = "done")
       => \E q \in Callers : proc[q].pc = "scheduled" /\ proc[q].op = "update"

\* C17 as stated: when a flush has ended, no entry of the cache it found is
\* still there (nothing but flush touches item:{id} and item:details:{id}
\* here).
C17_FlushRemovesAll ==
    \A p \in Callers :
       (proc[p].op = "flush" /\ proc[p].pc \in {"done", "threw"})
       => /\ Val(proc[p].before).details \cap cache.details = {}
          /\ Val(proc[p].before).item \cap cache.item = {}

(***************************************************************************)
(* part_006:14-22 below the level of values.  Redis holds strings:         *)
(* setCache writes JSON.stringify(json) and returns json, getCache returns *)
(* JSON.parse of what it reads.  A JS value is a number, a string, null,   *)
(* undefined, an array of values or an object, whose own properties are    *)
(* kept in their order; a JSON text is modelled by the value it denotes.   *)
(***************************************************************************)
Num(n) == [t |-> "number", n |-> n]

Str(s) == [t |-> "string", s |-> s]

Undefined == [t |-> "undefined"]

Null == [t |-> "null"]

Arr(items) == [t |-> "array", items |-> items]

Obj(members) == [t |-> "object", members |-> members]

Member(name, value) == [name |-> name, value |-> value]

\* the read of a property: undefined if the object has no such property
Get(object, name) ==
    LET named == Filter(object.members, LAMBDA member : member.name = name)
    IN IF named = <<>> THEN Undefined ELSE named[1].value

RECURSIVE Serialize(_)
RECURSIVE SerializeItems(_)
RECURSIVE SerializeMembers_DropsNull(_)
RECURSIVE SerializeMembers(_)

\* SerializeMembers leaving the properties out that are null as well
SerializeMembers_DropsNull(members) ==
    IF members = <<>> THEN <<>>
    ELSE LET member == Head(members) IN
         (IF member.value.t \in {"undefined", "null"} THEN <<>>
          ELSE <<Member(member.name, Serialize(member.value))>>)
         \o SerializeMembers_DropsNull(Tail(members))

\* JSON.stringify of an object: a property whose value is undefined is left
\* out
SerializeMembers(members) ==
    IF members = <<>> THEN <<>>
    ELSE LET member == Head(members) IN
         (IF member.value.t = "undefined" THEN <<>>
          ELSE <<Member(member.name, Serialize(member.value))>>)
         \o SerializeMembers(Tail(members))

\* JSON.stringify of an array: undefined is written as null
SerializeItems(items) ==
    IF items = <<>> THEN <<>>
    ELSE <<IF Head(items).t = "undefined" THEN Null ELSE Serialize(Head(items))>>
         \o SerializeItems(Tail(items))

\* what the text JSON.stringify(value) denotes
Serialize(value) ==
    IF value.t = "object" THEN Obj(SerializeMembers(value.members))
    ELSE IF value.t = "array" THEN Arr(SerializeItems(value.items))
    ELSE value

\* a stored string: a JSON text, or a string that is none
Text(doc) == [wellFormed |-> TRUE, doc |-> doc]

Garbage == [wellFormed |-> FALSE, doc |-> Null]

\* part_006:20 JSON.stringify(json)
JSON_stringify(value) == Text(Serialize(value))

\* part_006:16 JSON.parse(cached) of a JSON text
JSON_parse(text) == text.doc

\* api.js:104-108: the entry {id, title, count} of a facet as getFilterByType
\* builds it; title is normalizeValue(item["dcterms:title"]), undefined for
\* an item without a title
EntryObject(allItems, e) ==
    LET named == Filter(allItems, LAMBDA item : item.id = e.id)
    IN Obj(<<Member("id", Num(e.id)),
             Member("title", IF named[1].title = <<>> THEN Undefined
                             ELSE Str(named[1].title)),
             Member("count", Num(e.count))>>)

\* api.js:82-85: the entry {value, count} of the years
YearObject(e) == Obj(<<Member("value", Num(e.value)), Member("count", Num(e.count))>>)

\* api.js:125-131: the object getFilters builds
FiltersValue(allItems) ==
    LET filters == FiltersOf(allItems)
        Facet(type) == Arr([i \in 1..Len(filters[type]) |->
                               EntryObject(allItems, filters[type][i])])
    IN Obj(<<Member("year", Arr([i \in 1..Len(filters.year) |->
                                    YearObject(filters.year[i])])),
             Member("creator", Facet("creator")),
             Member("objectType", Facet("objectType")),
             Member("theme", Facet("theme")),
             Member("era", Facet("era"))>>)

\* api.js:232-233: the object {media, html} getItemDetails builds; the html
\* of an item without html media is null
DetailsValue(id) ==
    LET details == DetailsEntry(id).value
    IN Obj(<<Member("media", Arr([i \in 1..Len(details.media) |->
                                     Num(details.media[i])])),
             Member("html", Null)>>)

\* the keys of the store specification: filters, and item:details:{id} of
\* the items 3 and 4
StoreKeys == {0, 3, 4}

\* redisClient.get(key)
StoredText(key) == IF key = 0 THEN cache.filters ELSE getCacheOf("details", key)

\* redisClient.setEx(key, seconds, text)
StoreText(key, text) ==
    IF key = 0 THEN setCache("filters", text) ELSE setCacheOf("details", key, text)

\* what the function cached under the key computes on its miss path
FreshValue(key) == IF key = 0 THEN FiltersValue(upstream) ELSE DetailsValue(key)

\* part_006:15, api.js:118 and 220: a cached function is called and awaits
\* getCache, which awaits redisClient.get
getCache_Get(p, key) ==
    /\ proc[p].pc = "idle"
    /\ Len(out) < MaxCalls
    /\ proc' = [proc EXCEPT ![p] =
                   [@ EXCEPT !.op = IF key = 0 THEN "getFilters" ELSE "getItemDetails",
                             !.id = Some(key), !.pc = "rc_parse",
                             !.cached = StoredText(key)]]
    /\ UNCHANGED <<upstream, cache, awaitingAllItems, orphans, stalled, out>>

\* part_006:16, api.js:119 and 222: nothing stored is null, a miss; a JSON
\* text is parsed and its value returned by the function; JSON.parse of any
\* other string throws a SyntaxError, which nothing catches
getCache_Parse(p) ==
    LET c == proc[p] IN
    /\ c.pc = "rc_parse"
    /\ proc' = [proc EXCEPT ![p] =
                   IF c.cached = None THEN [c EXCEPT !.pc = "rc_miss"]
                   ELSE IF Val(c.cached).wellFormed
                   THEN Return([c EXCEPT !.hit = TRUE], JSON_parse(Val(c.cached)))
                   ELSE Throw(c)]
    /\ UNCHANGED <<upstream, cache, awaitingAllItems, orphans, stalled, out>>

\* part_006:19-22, api.js:133 and 235: the miss path ends with
\* `return await setCache(key, ttl, value)`: the text is stored and the
\* value itself returned
setCache_Return(p) ==
    LET c == proc[p]
        json == FreshValue(Val(c.id))
    IN
    /\ c.pc = "rc_miss"
    /\ cache' = StoreText(Val(c.id), JSON_stringify(json))
    /\ proc' = [proc EXCEPT ![p] = Return(c, json)]
    /\ UNCHANGED <<upstream, awaitingAllItems, orphans, stalled, out>>

\* something other than setCache leaves a string under the key that is no
\* JSON text (a write cut short, another program on the same redis)
Corrupt(key) ==
    /\ StoredText(key) # None
    /\ cache' = StoreText(key, Garbage)
    /\ UNCHANGED <<upstream, awaitingAllItems, proc, orphans, stalled, out>>

\* the TTL of the key runs out
ExpireText(key) == IF key = 0 THEN Expire("filters") ELSE ExpireOf("details", key)

InitStore ==
    /\ upstream = QueryCatalogue
    /\ cache = EmptyCache
    /\ awaitingAllItems = FALSE
    /\ proc = [p \in {1} |-> Idle]
    /\ orphans = 0
    /\ stalled = FALSE
    /\ out = <<>>

NextStore ==
    \/ \E key \in StoreKeys : getCache_Get(1, key)
    \/ getCache_Parse(1)
    \/ setCache_Return(1)
    \/ Reply(1)
    \/ \E key \in StoreKeys : Corrupt(key)
    \/ \E key \in StoreKeys : ExpireText(key)

SpecStore == InitStore /\ [][NextStore]_vars

(***************************************************************************)
(* Claims about the cache store.                                           *)
(***************************************************************************)
\* C19 as stated: getCache does not throw, whatever string is stored: a
\* string that cannot be deserialized is a miss.  (In the store
\* specification only getCache can throw.)
C19_UndeserializableIsMiss ==
    \A p \in Callers : proc[p].pc # "threw"

\* the reply to a call that took the miss path, and that to the next call
\* for the same key if it took the hit path
MissThenHit(i, j) ==
    /\ i < j
    /\ out[i].id = out[j].id
    /\ out[i].val # None /\ ~out[i].hit
    /\ out[j].val # None /\ out[j].hit
    /\ \A k \in (i + 1)..(j - 1) : out[k].id # out[i].id

RECURSIVE SameReads(_, _)
SameReads(a, b) ==
    /\ a.t = b.t
    /\ a.t = "number" => a.n = b.n
    /\ a.t = "string" => a.s = b.s
    /\ a.t = "array" => /\ Len(a.items) = Len(b.items)
                        /\ \A i \in 1..Len(a.items) : SameReads(a.items[i], b.items[i])
    /\ a.t = "object" =>
          \A name \in {a.members[i].name : i \in 1..Len(a.members)}
                      \cup {b.members[i].name : i \in 1..Len(b.members)} :
             SameReads(Get(a, name), Get(b, name))

Entities ==
    << RawItem(1, <<"o:Item", "foaf:Person">>, FALSE, <<>>, <<>>, <<>>, <<>>, 1990),
       RawItem(2, <<"o:Item", "foaf:Person">>, FALSE, <<>>, <<>>, <<>>, <<>>, 0),
       RawItem(3, <<"o:Item", "foaf:Person">>, FALSE, <<>>, <<>>, <<>>, <<>>, 0),
       RawItem(4, <<"o:Item", "skos:Concept">>, FALSE, <<>>, <<>>, <<>>, <<>>, 0),
       RawItem(5, <<"o:Item", "dctype:Collection">>, FALSE, <<>>, <<>>, <<>>, <<>>, 0),
       RawItem(6, <<"o:Item", "dctype:Event">>, FALSE, <<>>, <<>>, <<>>, <<>>, 0) >>

\* the links and the year an item of free shape may carry
LinkShapes ==
    { [category |-> <<>>,  theme |-> <<>>,  era |-> <<>>,  date |-> 0],
      [category |-> <<4>>, theme |-> <<>>,  era |-> <<>>,  date |-> 1991],
      [category |-> <<4>>, theme |-> <<5>>, era |-> <<6>>, date |-> 1991] }

CreatorShapes == { <<>>, <<1>>, <<2>>, <<1, 2>> }

Shapes(id) ==
    { RawItem(id, <<"o:Item">>, part, creator, l.category, l.theme, l.era, l.date) :
        part \in BOOLEAN, creator \in CreatorShapes, l \in LinkShapes }

RECURSIVE Extras(_, _)
Extras(first, n) ==
    IF n = 0 THEN { <<>> }
    ELSE { <<item>> \o rest : item \in Shapes(first), rest \in Extras(first + 1, n - 1) }

FacetMirrors ==
    { Entities \o extra : extra \in UNION { Extras(Len(Entities) + 1, n) : n \in 0..MaxExtra } }

InitFacet ==
    /\ upstream \in FacetMirrors
    /\ cache = EmptyCache
    /\ awaitingAllItems = FALSE
    /\ proc = <<>>
    /\ orphans = 0
    /\ stalled = FALSE
    /\ out = None

\* getFilterByType(type, allItems) applied to the mirror
Apply_getFilterByType(type) ==
    /\ out' = Some([fn |-> "getFilterByType", type |-> type,
                    value |-> getFilterByType(type, upstream)])
    /\ UNCHANGED <<upstream, cache, awaitingAllItems, proc, orphans, stalled>>

\* getFilterYears(allItems) applied to the mirror
Apply_getFilterYears ==
    /\ out' = Some([fn |-> "getFilterYears", type |-> "year",
                    value |-> getFilterYears(upstream)])
    /\ UNCHANGED <<upstream, cache, awaitingAllItems, proc, orphans, stalled>>

\* the facet set getFilters computes from the mirror
Apply_getFilters ==
    /\ out' = Some([fn |-> "getFilters", type |-> "all", value |-> FiltersOf(upstream)])
    /\ UNCHANGED <<upstream, cache, awaitingAllItems, proc, orphans, stalled>>

\* the totals getCounts computes from the mirror
Apply_getCounts ==
    /\ out' = Some([fn |-> "getCounts", type |-> "all", value |-> CountsOf(upstream)])
    /\ UNCHANGED <<upstream, cache, awaitingAllItems, proc, orphans, stalled>>

NextFacet ==
    \/ \E type \in DOMAIN types : Apply_getFilterByType(type)
    \/ Apply_getFilterYears
    \/ Apply_getFilters
    \/ Apply_getCounts

SpecFacet == InitFacet /\ [][NextFacet]_vars

(***************************************************************************)
(* Claims about the facets.                                                *)
(***************************************************************************)
\* the items of seq (by position) that satisfy nothing but membership
Positions(seq) == 1..Len(seq)

\* the number of items of the mirror, parts left out or not, whose property
\* of linked type `type` references id
Referencing(type, id, withParts) ==
    Cardinality({i \in Positions(upstream) :
                    /\ withParts \/ ~upstream[i].isPartOf
                    /\ \E j \in Positions(upstream[i].links[type]) :
                          upstream[i].links[type][j] = id})

\* the ids of the items of the mirror that carry the term of `type`
IdsOfType(type, withParts) ==
    {upstream[i].id : i \in {j \in Positions(upstream) :
                                /\ withParts \/ ~upstream[j].isPartOf
                                /\ \E k \in Positions(upstream[j].atType) :
                                      upstream[j].atType[k] = types[type].term}}

\* the facet list holds exactly the referenced ids of the type, with their counts
CountsReferences(list, type, withParts) ==
    /\ \A i \in Positions(list) : list[i].count = Referencing(type, list[i].id, withParts)
    /\ \A id \in IdsOfType(type, withParts) :
          Referencing(type, id, withParts) > 0 => \E i \in Positions(list) : list[i].id = id

\* the year list counts the items without isPartOf that carry the year
CountsYears(list) ==
    \A i \in Positions(list) :
        list[i].count = Cardinality({j \in Positions(upstream) :
                                        /\ ~upstream[j].isPartOf
                                        /\ upstream[j].date = list[i].value})

\* the list is the count over all items, the entry of one excluded id zeroed
CountsAllButExcluded(list, type) ==
    \E excluded \in {0} \cup IdsOfType(type, TRUE) :
        /\ \A i \in Positions(list) :
              list[i].count = IF list[i].id = excluded THEN 0
                              ELSE Referencing(type, list[i].id, TRUE)
        /\ \A id \in IdsOfType(type, TRUE) :
              Referencing(type, id, TRUE) > 0 => \E i \in Positions(list) : list[i].id = id

\* C9 as stated: in the facet set of getFilters the creator, theme and era
\* counts and the years are taken over the items that are no parts, and the
\* objectType facet over all items, parts included, with the count of the
\* excluded category id forced to zero.
C9_FacetCounts ==
    IsSome(out) /\ Val(out).fn = "getFilters" =>
        LET filters == Val(out).value IN
        /\ \A type \in {"creator", "theme", "era"} :
              CountsReferences(filters[type], type, FALSE)
        /\ CountsYears(filters.year)
        /\ CountsAllButExcluded(filters.objectType, "objectType")

\* what the code computes instead: every facet, objectType too, over the
\* items that are no parts, and no entry zeroed
C9_AsImplemented ==
    IsSome(out) /\ Val(out).fn = "getFilters" =>
        LET filters == Val(out).value IN
        /\ \A type \in DOMAIN types : CountsReferences(filters[type], type, FALSE)
        /\ CountsYears(filters.year)

NonIncreasing(list) ==
    \A i, j \in Positions(list) : i < j => list[i].count >= list[j].count

AllPositive(list) == \A i \in Positions(list) : list[i].count > 0

\* C10: every list of getFilterByType and of getFilterYears holds only entries
\* with count > 0, in order of non-increasing count; creators 1, 2 and 3
\* referenced 2, 1 and 0 times give <<[id 1, count 2], [id 2, count 1]>>.
C10_PositiveAndOrdered ==
    IsSome(out) /\ Val(out).fn \in {"getFilterByType", "getFilterYears"} =>
        /\ AllPositive(Val(out).value)
        /\ NonIncreasing(Val(out).value)
        /\ ( /\ Val(out).type = "creator"
             /\ Referencing("creator", 1, TRUE) = 2
             /\ Referencing("creator", 2, TRUE) = 1
             /\ Referencing("creator", 3, TRUE) = 0 )
           => Val(out).value = << [id |-> 1, count |-> 2], [id |-> 2, count |-> 1] >>

\* C10, witness: a creator list in which sorting moved the later creator
\* first, with the unreferenced creator left out
C10_Witness ==
    /\ IsSome(out) /\ Val(out).fn = "getFilterByType" /\ Val(out).type = "creator"
    /\ Len(Val(out).value) = 2
    /\ Val(out).value[1].id = 2 /\ Val(out).value[1].count > Val(out).value[2].count

(***************************************************************************)
(* The parseQuery specification: parseQuery applied to query objects that   *)
(* carry any subset of the filter keys, a search that may be present but    *)
(* empty (`?search=`), and no limit or an explicit one.                     *)
(***************************************************************************)
ParseQueries ==
    { [EmptyQuery EXCEPT !.objectType = ot, !.creator = cr, !.theme = th,
                         !.era = er, !.year = yr, !.search = se, !.id = id,
                         !.limit = li] :
        ot \in {None, Some(NatToStr(2))}, cr \in {None, Some(NatToStr(1))},
        th \in {None, Some(NatToStr(2))}, er \in {None, Some(NatToStr(2))},
        yr \in {None, Some(NatToStr(199))},
        se \in {None, Some(<<>>), Some(<<97, 98, 99>>)},
        id \in {None, Some(NatToStr(3))},
        li \in {None, Some(1), Some(PAGE_MAX_LIMIT + 1)} }

InitParse ==
    /\ upstream = <<>>
    /\ cache = EmptyCache
    /\ awaitingAllItems = FALSE
    /\ proc = <<>>
    /\ orphans = 0
    /\ stalled = FALSE
    /\ out = None

\* parseQuery(query) applied to a query object
Apply_parseQuery(query) ==
    /\ out' = Some([fn |-> "parseQuery", query |-> query, value |-> parseQuery(query)])
    /\ UNCHANGED <<upstream, cache, awaitingAllItems, proc, orphans, stalled>>

NextParse == \E query \in ParseQueries : Apply_parseQuery(query)

SpecParse == InitParse /\ [][NextParse]_vars

\* C21: for a query without an explicit limit, parseQuery's limit is
\* PAGE_MAX_LIMIT if one of the keys objectType, creator, theme, era, year,
\* search or id is present in the query, and PAGE_LIMIT if none is; the two
\* limits differ, so the large limit is used if and only if such a key is
\* present.
C21_LimitPolicy ==
    ( /\ IsSome(out) /\ Val(out).fn = "parseQuery"
      /\ Val(out).query.limit = None )
    => LET query == Val(out).query
           present == \/ IsSome(query.objectType) \/ IsSome(query.creator)
                      \/ IsSome(query.theme) \/ IsSome(query.era)
                      \/ IsSome(query.year) \/ IsSome(query.search)
                      \/ IsSome(query.id)
       IN /\ PAGE_MAX_LIMIT # PAGE_LIMIT
          /\ present <=> Val(out).value.limit = PAGE_MAX_LIMIT
          /\ ~present <=> Val(out).value.limit = PAGE_LIMIT

\* parseQuery has been applied to a query whose only filter key is id
C21_Witness ==
    /\ IsSome(out) /\ Val(out).fn = "parseQuery"
    /\ Val(out).query = [EmptyQuery EXCEPT !.id = Some(NatToStr(3))]
    /\ Val(out).value.limit = PAGE_MAX_LIMIT

(***************************************************************************)
(* Claims about the result queryItems computes, over the query             *)
(* specification.                                                          *)
(***************************************************************************)
\* the query of the call carries no facet key, no search and no id
Unfiltered(c) ==
    /\ c.id = None /\ c.query.id = None /\ c.query.search = None
    /\ c.query.objectType = None /\ c.query.creator = None
    /\ c.query.theme = None /\ c.query.era = None /\ c.query.year = None

\* how many of the items list the id under the facet
Listing(items, key, id) ==
    Cardinality({n \in 1..Len(items) :
                   /\ IsSome(items[n].links[key])
                   /\ Includes(Val(items[n].links[key]), id)})

\* C22 as stated: the `filters` of a computed queryItems result is null if
\* and only if the query is unfiltered; for a filtered query each facet
\* entry's count is the number of returned items (result.items) that list
\* the entry's value, and every year entry stands for a year.
C22_FiltersOverReturnedItems ==
    \A p \in Computed :
        LET result == Val(proc[p].val) IN
        /\ result.filters = None <=> Unfiltered(proc[p])
        /\ result.filters # None =>
              /\ \A key \in DOMAIN types :
                    LET facet == Val(result.filters)[key] IN
                    \A k \in 1..Len(facet) :
                        facet[k].count = Listing(result.items, key, facet[k].id)
              /\ \A k \in 1..Len(Val(result.filters).year) :
                    Val(result.filters).year[k].value # "undefined"

\* the ids of the part items among the objects of an upstream reply
PartsOf(json) ==
    {json[k].id : k \in {n \in 1..Len(json) :
                           /\ json[n].isPartOf
                           /\ normalizeType(json[n]) = "object"}}

\* C27 as stated: in a computed queryItems result, the part items of the
\* upstream reply are absent from the result if the query is an unfiltered,
\* non-search base listing (no id, no search, no facet key), and all of them
\* are among the result's items in every other query.
C27_PartsDroppedOnlyFromBaseListing ==
    \A p \in Computed :
        LET returned == IdsOf(Val(proc[p].val).items)
            parts == PartsOf(Val(proc[p].json))
        IN IF Unfiltered(proc[p]) THEN parts \cap returned = {}
           ELSE parts \subseteq returned

\* the count of the facet value in a facet (a list of {id, count}); a value
\* without an entry counts 0
CountOf(facet, id) ==
    IF \E k \in 1..Len(facet) : facet[k].id = id
    THEN facet[CHOOSE k \in 1..Len(facet) : facet[k].id = id].count
    ELSE 0

\* C30 as stated: whenever the global facet set is cached, the count it
\* holds for a facet value is at least the count for that value in the
\* `filters` of every filtered result queryItems computed.
C30_GlobalCountsDominate ==
    \A p \in Computed :
        LET result == Val(proc[p].val) IN
        ( IsSome(cache.filters) /\ result.filters # None )
        => \A key \in DOMAIN types :
              LET facet == Val(result.filters)[key] IN
              \A k \in 1..Len(facet) :
                  CountOf(Val(cache.filters)[key], facet[k].id) >= facet[k].count

(***************************************************************************)
(* The language specification: queryItems and queryCreators called with    *)
(* and without `lang`, for a supported and for an unsupported language,    *)
(* over a catalogue whose titles have an en and a zh value that order the  *)
(* items differently: creators 1 (b, zh a) and 10 (a, zh b), object 3      *)
(* (d, zh a) and part 4 (c, zh b).                                         *)
(***************************************************************************)
LangCatalogue ==
    [k \in 1..Len(QueryCatalogue) |->
        LET item == QueryCatalogue[k] IN
        IF item.id \in {1, 3} THEN WithTitleZh(item, <<97>>)
        ELSE IF item.id \in {4, 10} THEN WithTitleZh(item, <<98>>)
        ELSE item]

Languages == {None, Some("zh"), Some("fr")}

LangRequests ==
    { Request("queryItems", None,
              [EmptyQuery EXCEPT !.creator = Some(NatToStr(1)), !.limit = Some(3),
                                 !.lang = lang], DefaultOptions) : lang \in Languages }
    \cup { Request("queryItems", Some(1), [EmptyQuery EXCEPT !.lang = lang],
                   DefaultOptions) : lang \in Languages }
    \cup { Request("queryItems", None,
                   [EmptyQuery EXCEPT !.creator = Some(NatToStr(1)), !.limit = Some(3),
                                      !.lang = Some("fr")], MainPageOptions),
           Request("queryItems", None, [EmptyQuery EXCEPT !.lang = Some("zh")],
                   DefaultOptions) }
    \cup { Request("queryCreators", None, [EmptyQuery EXCEPT !.lang = lang],
                   DefaultOptions) : lang \in Languages }

InitLang ==
    /\ upstream = LangCatalogue
    /\ cache = EmptyCache
    /\ awaitingAllItems = FALSE
    /\ proc = [p \in {1} |-> Idle]
    /\ orphans = 0
    /\ stalled = FALSE
    /\ out = <<>>

\* part_005:95-107: the route handler calls queryCreators or queryItems
ServeLang(p) ==
    /\ Len(out) < MaxCalls
    /\ \E r \in LangRequests :
          IF r.op = "queryItems" THEN queryItems_Call(p, r.id, r.query, r.options)
          ELSE queryCreators_Call(p, r.query)

NextLang ==
    \/ \E p \in Callers :
          \/ ServeLang(p)
          \/ getItem_Gate(p)
          \/ getItem_Fetch(p)
          \/ queryItems_Item(p)
          \/ queryItems_Gate(p)
          \/ queryItems_Fetch(p)
          \/ queryItems_Map(p)
          \/ queryItems_Creators(p)
          \/ queryItems_Total(p)
          \/ queryCreators_Creators(p)
          \/ queryCreators_Counts(p)
          \/ getFilters_Gate(p)
          \/ getFilters_Compute(p)
          \/ getCreators_Gate(p)
          \/ getCreators_Compute(p)
          \/ getCounts_Gate(p)
          \/ getCounts_Compute(p)
          \/ getAllItems_Gate(p)
          \/ getAllItems_Page(p)
          \/ Reply(p)

SpecLang == InitLang /\ [][NextLang]_vars

(***************************************************************************)
(* Claims about the order of results and about languages.                  *)
(***************************************************************************)
\* the replies to calls of queryItems that are results
ResultReplies ==
    {k \in 1..Len(out) : out[k].op = "queryItems" /\ IsResult(out[k].val)}

\* no item of the list comes before an item whose localized title is less
OrderedByTitle(items, lang) ==
    \A i, j \in 1..Len(items) :
        i < j => ~StrLess(localizeObject(items[j], lang), localizeObject(items[i], lang))

\* the items of `items` appear in `reply` in the same relative order
KeepsOrderOf(items, reply) ==
    \A i, j \in 1..Len(items) :
        i < j => \E m, n \in 1..Len(reply) :
                    /\ m < n /\ reply[m].id = items[i].id /\ reply[n].id = items[j].id

\* C23 as stated: in every result that queryItems returned for a request in
\* a supported language, the creators are ordered by their title in that
\* language; the objects are ordered that way if the request has an id, and
\* are in the relative order of the upstream reply to the query if it has
\* none.
C23_SortPolicy ==
    \A k \in ResultReplies :
        LET r == out[k]
            items == Val(r.val).items
            lang == LangOf(r.query)
        IN lang \in collators =>
              /\ OrderedByTitle(CreatorsIn(items), lang)
              /\ r.id # None => OrderedByTitle(Filter(items, IsObjectItem), lang)
              /\ r.id = None =>
                    KeepsOrderOf(Filter(items, IsObjectItem), Search(upstream, Val(r.key)))

\* C24 as stated: a call of queryItems or queryCreators for a language
\* without a collator, none of whose upstream requests failed, does not
\* throw: it completes with a result.
C24_UnknownLocaleCompletes ==
    \A p \in Callers :
        ( /\ proc[p].op \in {"queryItems", "queryCreators"}
          /\ LangOf(proc[p].query) \notin collators
          /\ proc[p].nonOk = {} )
        => proc[p].pc # "threw"

(***************************************************************************)
(* The race specification: NCallers concurrent calls of queryItems over a  *)
(* preloaded cache.  The requests for creator 1 have one query string and  *)
(* differ in language and options, so that their results differ; the       *)
(* request for creator 10 has another query string.                        *)
(***************************************************************************)
RaceRequests ==
    { Request("queryItems", None,
              [EmptyQuery EXCEPT !.creator = Some(NatToStr(1)), !.limit = Some(3),
                                 !.lang = lang], options) :
        lang \in {None, Some("zh")}, options \in {DefaultOptions, MainPageOptions} }
    \cup { Request("queryItems", None,
                   [EmptyQuery EXCEPT !.creator = Some(NatToStr(10)), !.limit = Some(2)],
                   DefaultOptions) }

InitRace ==
    /\ upstream = LangCatalogue
    /\ cache = WarmCache
    /\ awaitingAllItems = FALSE
    /\ proc = [p \in 1..NCallers |-> Idle]
    /\ orphans = 0
    /\ stalled = FALSE
    /\ out = <<>>

\* part_005:95-107: each client makes one request
ServeRace(p) ==
    /\ proc[p].op = "none"
    /\ \E r \in RaceRequests : queryItems_Call(p, r.id, r.query, r.options)

NextRace ==
    \E p \in Callers :
        \/ ServeRace(p)
        \/ queryItems_Gate(p)
        \/ queryItems_Fetch(p)
        \/ queryItems_Map(p)
        \/ queryItems_Creators(p)
        \/ queryItems_Total(p)
        \/ getFilters_Gate(p)
        \/ getCreators_Gate(p)
        \/ getCounts_Gate(p)

SpecRace == InitRace /\ [][NextRace]_vars

\* C28: of concurrent calls of queryItems, every one that reaches its cache
\* write sets the entry of its own query key to the value it returns,
\* whatever the entry held, and leaves the entries of all other query keys
\* and all other cache keys as they were; no other step changes the cache.
\* The entry of a key therefore holds the value of the call that wrote it
\* last.
C28_LastWriteWins ==
    [][LET Writers == {p \in Callers : /\ proc[p].pc # "done"
                                       /\ proc'[p].pc = "done"
                                       /\ "query" \in proc'[p].stored}
       IN /\ Writers = {} => cache' = cache
          /\ \A p \in Writers :
                LET key == Val(proc'[p].key) IN
                /\ {e.value : e \in {d \in cache'.query : d.key = key}}
                      = {Val(proc'[p].val)}
                /\ {e \in cache'.query : e.key # key} = {e \in cache.query : e.key # key}
                /\ \A family \in DOMAIN cache \ {"query"} :
                      cache'[family] = cache[family]]_vars

\* two calls with the same query key have both missed, both searched
\* upstream and both written; their values differ and the entry holds one
\* of them
C28_Witness ==
    \E p, q \in Callers :
        /\ proc[p].pc = "done" /\ proc[q].pc = "done"
        /\ proc[p].key = proc[q].key
        /\ ~proc[p].hit /\ ~proc[q].hit
        /\ "items?query" \in proc[p].sent /\ "items?query" \in proc[q].sent
        /\ "query" \in proc[p].stored /\ "query" \in proc[q].stored
        /\ proc[p].val # proc[q].val
        /\ getCacheOf("query", Val(proc[p].key)) = proc[p].val
        /\ Cardinality(cache.query) = 1

(***************************************************************************)
(* The snippet specification: the three functions applied to items whose   *)
(* description and text are "", "abc abc", "a, b abc" or "ab abc ab", and  *)
(* to the searches "a, 中, abc", "abc", "a", "ab,abc", "a, ab", `abc ""`,  *)
(* three spaces, and no search.                                            *)
(***************************************************************************)
SnippetTexts ==
    { <<>>,
      <<97, 98, 99, 32, 97, 98, 99>>,
      <<97, 44, 32, 98, 32, 97, 98, 99>>,
      <<97, 98, 32, 97, 98, 99, 32, 97, 98>> }

SnippetItems == [description : SnippetTexts, text : SnippetTexts]

Searches ==
    { <<97, 44, 32, 20013, 44, 32, 97, 98, 99>>,
      <<97, 98, 99>>,
      <<97>>,
      <<97, 98, 44, 97, 98, 99>>,
      <<97, 44, 32, 97, 98>>,
      <<97, 98, 99, 32, 34, 34>>,
      <<32, 32, 32>> }

InitSnippet ==
    /\ upstream = <<>>
    /\ cache = EmptyCache
    /\ awaitingAllItems = FALSE
    /\ proc = <<>>
    /\ orphans = 0
    /\ stalled = FALSE
    /\ out = None

\* normalizeSearchString(query.search)
Apply_normalizeSearchString(search) ==
    /\ out' = Some([fn |-> "normalizeSearchString", item |-> None, search |-> search,
                    value |-> normalizeSearchString(search)])
    /\ UNCHANGED <<upstream, cache, awaitingAllItems, proc, orphans, stalled>>

\* extractSnippets(item, search)
Apply_extractSnippets(item, search) ==
    /\ out' = Some([fn |-> "extractSnippets", item |-> Some(item), search |-> Some(search),
                    value |-> extractSnippets(item, search)])
    /\ UNCHANGED <<upstream, cache, awaitingAllItems, proc, orphans, stalled>>

\* the step of queryItems that attaches the snippets of an item
Apply_AttachSnippets(item, search) ==
    /\ out' = Some([fn |-> "snippets", item |-> Some(item), search |-> search,
                    value |-> AttachSnippets(item, search)])
    /\ UNCHANGED <<upstream, cache, awaitingAllItems, proc, orphans, stalled>>

NextSnippet ==
    \/ \E search \in {None} \cup {Some(str) : str \in Searches} :
          \/ Apply_normalizeSearchString(search)
          \/ \E item \in SnippetItems : Apply_AttachSnippets(item, search)
    \/ \E item \in SnippetItems, search \in Searches : Apply_extractSnippets(item, search)

SpecSnippet == InitSnippet /\ [][NextSnippet]_vars

\* C26: whenever extractSnippets returns, it returns at most 3 snippets,
\* whatever the matches in the description and in the text are.
C26_AtMostThreeSnippets ==
    ( /\ IsSome(out) /\ Val(out).fn = "extractSnippets"
      /\ Val(out).value.status = "returned" )
    => Len(Val(out).value.snippets) <= 3

\* extractSnippets has returned 3 snippets for an item whose description
\* and text hold two matches each
C26_Witness ==
    /\ IsSome(out) /\ Val(out).fn = "extractSnippets"
    /\ Val(out).value.status = "returned"
    /\ Len(Val(out).value.snippets) = 3
    /\ LET item == Val(Val(out).item)
           regex == searchToRegex(Val(Val(out).search))
       IN /\ Len(matchWithContext(item.description, regex, 1)) = 2
          /\ Len(matchWithContext(item.text, regex, 1)) = 2

\* the terms of a search string that are effective: its comma-separated
\* terms, trimmed, of 3 or more characters or with a Han character
EffectiveTerms(search) ==
    IF search = None THEN {}
    ELSE LET terms == Split(Val(search))
             trimmed == {Trim(terms[k]) : k \in 1..Len(terms)}
         IN {t \in trimmed : Len(t) >= 3 \/ \E i \in 1..Len(t) : IsHan(t[i])}

\* C25 as stated: the terms normalizeSearchString returns are the effective
\* terms of the search string; queryItems attaches snippets to an item if and
\* only if the search has an effective term; and every snippet attached is
\* the match of an effective term (its matched text holds one).
C25_DroppedTermsTakeNoPart ==
    IsSome(out) =>
       LET effective == EffectiveTerms(Val(out).search) IN
       /\ Val(out).fn = "normalizeSearchString" =>
             {Val(out).value[k] : k \in 1..Len(Val(out).value)} = effective
       /\ Val(out).fn = "snippets" =>
             /\ Val(out).value # None <=> effective # {}
             /\ Val(out).value # None =>
                   \A k \in 1..Len(Val(Val(out).value).snippets) :
                       \E t \in effective :
                           Contains(Val(Val(out).value).snippets[k].term, t)

(***************************************************************************)
(* Claims about getCounts, over the facet specification.                   *)
(***************************************************************************)
\* the positions of the mirror items that are no parts and whose "@type"
\* normalizes to one of the types
NonPartsOfType(typeNames) ==
    {k \in 1..Len(upstream) : /\ ~upstream[k].isPartOf
                              /\ normalizeType(upstream[k]) \in typeNames}

\* C33: the totals of getCounts are the number of items of the mirror that
\* are no parts and of type creator, and the number that are no parts and
\* of the fallback type object; the items of type objectType, theme or era
\* are in neither total, so the two totals and their number add up to the
\* number of items that are no parts.
C33_CountsByType ==
    IsSome(out) /\ Val(out).fn = "getCounts" =>
        /\ Val(out).value.creators = Cardinality(NonPartsOfType({"creator"}))
        /\ Val(out).value.objects = Cardinality(NonPartsOfType({"object"}))
        /\ Val(out).value.creators + Val(out).value.objects
           + Cardinality(NonPartsOfType({"objectType", "theme", "era"}))
              = Cardinality({k \in 1..Len(upstream) : ~upstream[k].isPartOf})

\* getCounts has counted a mirror that holds a part, an object that is no
\* part, creators and items of the three facet types
C33_Witness ==
    /\ IsSome(out) /\ Val(out).fn = "getCounts"
    /\ Val(out).value.objects = 1 /\ Val(out).value.creators = 3
    /\ \E k \in 1..Len(upstream) : upstream[k].isPartOf
    /\ NonPartsOfType({"objectType", "theme", "era"}) # {}

(***************************************************************************)
(* Claims about the items of a queryItems result, over the query           *)
(* specification.                                                          *)
(***************************************************************************)
\* the position of the first occurrence of the id in the list
FirstAt(list, id) == CHOOSE i \in 1..Len(list) : list[i] = id /\ \A j \in 1..(i - 1) : list[j] # id

\* `resolved` holds exactly the references of `raw` that have an entry in the
\* facet, each once, in the order of their first occurrence
ResolvesAgainst(resolved, raw, facet) ==
    LET present == {raw[i] : i \in {n \in 1..Len(raw) :
                                      \E e \in 1..Len(facet) : facet[e].id = raw[n]}}
    IN /\ {resolved[i] : i \in 1..Len(resolved)} = present
       /\ \A i, j \in 1..Len(resolved) : i < j =>
             /\ resolved[i] # resolved[j]
             /\ FirstAt(raw, resolved[i]) < FirstAt(raw, resolved[j])

\* C31 as stated: for every item of a result queryItems computed, and for
\* each of creator, objectType, theme and era, the item's resolved list holds
\* exactly the references of the upstream item whose target has an entry in
\* the cached facet set for that type, each id once, in first-occurrence
\* order (an item without the property has no list).
C31_LinksResolvedAgainstFacets ==
    \A p \in Computed :
        IsSome(cache.filters) =>
        \A k \in 1..Len(Val(proc[p].val).items) :
            LET item == Val(proc[p].val).items[k]
                raw == RawItemOf(item.id)[1]
            IN \A type \in DOMAIN types :
                  ResolvesAgainst(IF IsSome(item.links[type]) THEN Val(item.links[type])
                                  ELSE <<>>,
                                  Prop(raw, type), Val(cache.filters)[type])

\* no item of the list carries a text or a description
NoStagedFields(items) ==
    \A i \in 1..Len(items) : items[i].text = None /\ items[i].description = None

\* C32: no item of a result that queryItems returned, computed or from the
\* cache, and no item of a result stored under a query key carries a `text`
\* or a `description`, with a search and without one.
C32_NoTextNoDescription ==
    /\ \A k \in ResultReplies : NoStagedFields(Val(out[k].val).items)
    /\ \A e \in cache.query : NoStagedFields(e.value.items)

\* a search has returned an upstream item that has a description and a
\* text, with the snippets extracted from them
C32_Witness ==
    \E k \in ResultReplies :
        /\ out[k].query.search # None
        /\ \E i \in 1..Len(Val(out[k].val).items) :
              LET item == Val(out[k].val).items[i] IN
              /\ RawItemOf(item.id)[1].text # <<>>
              /\ RawItemOf(item.id)[1].description # <<>>
              /\ item.snippets # None /\ Len(Val(item.snippets)) = 2
        /\ getCacheOf("query", Val(out[k].key)) = out[k].val

\* C40: every item of a result that queryItems returned has the type object
\* or creator, and no creator comes before an object in its `items`.
C40_ObjectsThenCreators ==
    \A k \in ResultReplies :
        LET items == Val(out[k].val).items IN
        /\ \A i \in 1..Len(items) : items[i].type \in {"object", "creator"}
        /\ \A i, j \in 1..Len(items) :
              (items[i].type = "creator" /\ items[j].type = "object") => j < i

\* a result with an object and a creator, for a query to which upstream
\* replied with an item of another type as well
C40_Witness ==
    \E k \in ResultReplies :
        LET items == Val(out[k].val).items
            reply == Search(upstream, Val(out[k].key))
        IN /\ \E i \in 1..Len(reply) : normalizeType(reply[i]) = "objectType"
           /\ \E i, j \in 1..Len(items) :
                 items[i].type = "object" /\ items[j].type = "creator"

(***************************************************************************)
(* Claims about forced calls and the in-flight flag of getAllItems.        *)
(***************************************************************************)
\* C36 as stated: a call getAllItems(true) that has returned either fetched
\* the mirror from upstream itself or returns a mirror that was written to
\* the cache after the call began; it never returns what the cache held
\* when it was called.
C36_ForcedReturnsFresh ==
    \A p \in Callers :
        ( /\ proc[p].op = "getAllItems" /\ proc[p].forced /\ proc[p].pc = "done" )
        => proc[p].requests > 0 \/ proc[p].fresh

\* C37 as stated: the in-flight flag is set only while some call of
\* getAllItems is executing its paging loop, so once a fetch has ended, by
\* storing the mirror or by an exception, the flag is down.
C37_FlagOnlyWhileFetching ==
    awaitingAllItems => \E p \in Callers : proc[p].pc = "ga_fetch"

(***************************************************************************)
(* Claims about a poll that upstream fails.                                *)
(***************************************************************************)
\* C39: when the request of the invalidation poll fails, getLastModified
\* returns {error} and leaves the cache as it is, and update, given that
\* value, ends without an exception, starts no flush and deletes no key:
\* neither step of the poll changes the cache.
C39_FailedPollLeavesCache ==
    [][\A p \in Callers :
          ( /\ proc[p].op = "update"
            /\ proc[p].pc \in {"lm_fetch", "up_after"}
            /\ proc'[p].pc # proc[p].pc
            /\ "getLastModified" \in proc'[p].errored )
          => /\ cache' = cache
             /\ proc'[p].pc # "threw"
             /\ "flush" \notin proc'[p].called
             /\ proc'[p].deleted = {}
             /\ proc'["flush"] = proc["flush"]]_vars

\* a poll over a cache that holds the details of two items and a first page
\* has failed and update has ended: it has scheduled preloadFilters and the
\* entries are all still there
C39_Witness ==
    /\ proc["update"].pc = "done"
    /\ "getLastModified" \in proc["update"].errored
    /\ "setTimeout(preloadFilters)" \in proc["update"].called
    /\ proc["timer"].pc = "scheduled"
    /\ proc["flush"].pc = "idle"
    /\ cache.details = {DetailsEntry(3), DetailsEntry(4)}
    /\ FirstPageKey \in KeysOf(cache.query)

(***************************************************************************)
(* api.js:167-196 getFeatured() and getHeroes(), api.js:357-381            *)
(* getPage(slug, lang).  The item sets and the site pages of upstream are  *)
(* fixed: the members of an item set are some of the items of `upstream`.  *)
(***************************************************************************)
\* the members of the item sets FEATURED_ITEM_SET and HEROES_ITEM_SET
ItemSets == [featured |-> {3}, heroes |-> {1, 3}]

\* GET /items?item_set_id={set}
ItemSetOf(items, set) == Filter(items, LAMBDA item : item.id \in ItemSets[set])

\* the slugs upstream has a site page for, and what a request can ask for
SitePages == {<<"about", "en">>}

Slugs == {"about", "imprint"}

\* the `include` that normalizeOmekaFields defaults to has its four flags
\* false, and `flag && value` is then false, which omitNullish keeps
DefaultInclude == {"text", "description", "heroes", "items"}

\* api.js:179: json.map((item) => normalizeOmekaFields(item, filters))
FeaturedOf(json, filters) ==
    [i \in 1..Len(json) |->
        [fields |-> normalizeOmekaFields(json[i], Some(filters), NoInclude),
         false  |-> DefaultInclude]]

\* api.js:194: json.map((item) => normalizeHero(item)), the large thumbnail
\* of each item
HeroesOf(json) == [i \in 1..Len(json) |-> [large |-> json[i].id]]

\* normalize.js:180-190: normalizePage of the reply for a local slug: null
\* for an empty array, otherwise the title and the html of the first page
normalizePage(localSlug) ==
    IF localSlug \in SitePages THEN Some([title |-> localSlug[1], html |-> localSlug[2]])
    ELSE None

\* api.js:168-169: getFeatured() up to the await of the cache read
getFeatured_Call(p) ==
    /\ proc[p].pc = "idle"
    /\ proc' = [proc EXCEPT ![p] = Enter([@ EXCEPT !.op = "getFeatured"],
                                          "fe_gate", "featured", FALSE)]
    /\ UNCHANGED <<upstream, cache, awaitingAllItems, orphans, stalled, out>>

\* api.js:170-173: the cache hit, or the request for the item set
getFeatured_Gate(p) ==
    LET c == proc[p] IN
    /\ c.pc = "fe_gate"
    /\ proc' = [proc EXCEPT ![p] =
                   IF IsSome(c.cached) THEN Return([c EXCEPT !.hit = TRUE], Val(c.cached))
                   ELSE [c EXCEPT !.pc = "fe_fetch", !.sent = @ \cup {"items?item_set"}]]
    /\ UNCHANGED <<upstream, cache, awaitingAllItems, orphans, stalled, out>>

\* api.js:175-176: the reply: a failure, or the call of getFilters()
getFeatured_Fetch(p) ==
    LET c == proc[p] IN
    /\ c.pc = "fe_fetch"
    /\ \E outcome \in Outcomes :
          proc' = [proc EXCEPT ![p] =
                      IF outcome = "fail"
                      THEN Return([c EXCEPT !.nonOk = @ \cup {"getFeatured"},
                                            !.errored = @ \cup {"getFeatured"}],
                                  ErrorOf(500))
                      ELSE Invoke([c EXCEPT !.json = Some(ItemSetOf(upstream, "featured"))],
                                  "fe_store", "gf_gate", "filters", FALSE)]
    /\ UNCHANGED <<upstream, cache, awaitingAllItems, orphans, stalled, out>>

\* api.js:178-181: getFilters() has returned; the items are normalized and
\* stored
getFeatured_Store(p) ==
    LET c == proc[p]
        featured == FeaturedOf(Val(c.json), Val(c.val))
    IN
    /\ c.pc = "fe_store"
    /\ cache' = setCache("featured", featured)
    /\ proc' = [proc EXCEPT ![p] = Return([c EXCEPT !.stored = @ \cup {"featured"}],
                                           featured)]
    /\ UNCHANGED <<upstream, awaitingAllItems, orphans, stalled, out>>

\* api.js:184-185: getHeroes() up to the await of the cache read
getHeroes_Call(p) ==
    /\ proc[p].pc = "idle"
    /\ proc' = [proc EXCEPT ![p] = Enter([@ EXCEPT !.op = "getHeroes"],
                                          "he_gate", "heroes", FALSE)]
    /\ UNCHANGED <<upstream, cache, awaitingAllItems, orphans, stalled, out>>

\* api.js:186-189: the cache hit, or the request for the item set
getHeroes_Gate(p) ==
    LET c == proc[p] IN
    /\ c.pc = "he_gate"
    /\ proc' = [proc EXCEPT ![p] =
                   IF IsSome(c.cached) THEN Return([c EXCEPT !.hit = TRUE], Val(c.cached))
                   ELSE [c EXCEPT !.pc = "he_fetch", !.sent = @ \cup {"items?item_set"}]]
    /\ UNCHANGED <<upstream, cache, awaitingAllItems, orphans, stalled, out>>

\* api.js:191-196: the reply: a failure, or the heroes, which are stored
getHeroes_Fetch(p) ==
    LET c == proc[p]
        heroes == HeroesOf(ItemSetOf(upstream, "heroes"))
    IN
    /\ c.pc = "he_fetch"
    /\ \E outcome \in Outcomes :
          IF outcome = "fail"
          THEN /\ proc' = [proc EXCEPT ![p] =
                              Return([c EXCEPT !.nonOk = @ \cup {"getHeroes"},
                                               !.errored = @ \cup {"getHeroes"}],
                                     ErrorOf(500))]
               /\ UNCHANGED cache
          ELSE /\ cache' = setCache("heroes", heroes)
               /\ proc' = [proc EXCEPT ![p] =
                              Return([c EXCEPT !.stored = @ \cup {"heroes"}], heroes)]
    /\ UNCHANGED <<upstream, awaitingAllItems, orphans, stalled, out>>

\* api.js:357-360: getPage(slug, lang) up to the await of the cache read
getPage_Call(p, slug, lang) ==
    LET localSlug == <<slug, lang>> IN
    /\ proc[p].pc = "idle"
    /\ proc' = [proc EXCEPT ![p] = [@ EXCEPT !.op = "getPage", !.key = Some(localSlug),
                                             !.pc = "pg_gate",
                                             !.cached = getCacheOf("page", localSlug)]]
    /\ UNCHANGED <<upstream, cache, awaitingAllItems, orphans, stalled, out>>

\* api.js:361-365: the cache hit, or the request for the site page
getPage_Gate(p) ==
    LET c == proc[p] IN
    /\ c.pc = "pg_gate"
    /\ proc' = [proc EXCEPT ![p] =
                   IF IsSome(c.cached) THEN Return([c EXCEPT !.hit = TRUE], Val(c.cached))
                   ELSE [c EXCEPT !.pc = "pg_fetch", !.sent = @ \cup {"site_pages"}]]
    /\ UNCHANGED <<upstream, cache, awaitingAllItems, orphans, stalled, out>>

\* api.js:367-380: the reply: a failure; no page, which is the error 404; or
\* the page, which is stored
getPage_Fetch(p) ==
    LET c == proc[p]
        page == normalizePage(Val(c.key))
    IN
    /\ c.pc = "pg_fetch"
    /\ \E outcome \in Outcomes :
          IF outcome = "fail"
          THEN /\ proc' = [proc EXCEPT ![p] =
                              Return([c EXCEPT !.nonOk = @ \cup {"getPage"},
                                               !.errored = @ \cup {"getPage"}],
                                     ErrorOf(500))]
               /\ UNCHANGED cache
          ELSE IF page = None
          THEN /\ proc' = [proc EXCEPT ![p] =
                              Return([c EXCEPT !.errored = @ \cup {"getPage"}],
                                     ErrorOf(404))]
               /\ UNCHANGED cache
          ELSE /\ cache' = setCacheOf("page", Val(c.key), Val(page))
               /\ proc' = [proc EXCEPT ![p] =
                              Return([c EXCEPT !.stored = @ \cup {"page"}], Val(page))]
    /\ UNCHANGED <<upstream, awaitingAllItems, orphans, stalled, out>>

(***************************************************************************)
(* The specification of the cached read functions whose upstream request   *)
(* can fail: one handler at a time serves /featured, /heroes, /page/:slug, *)
(* /query/:id and /item/:id over a cache that starts empty.                *)
(***************************************************************************)
InitPages ==
    /\ upstream = QueryCatalogue
    /\ cache = EmptyCache
    /\ awaitingAllItems = FALSE
    /\ proc = [p \in {1} |-> Idle]
    /\ orphans = 0
    /\ stalled = FALSE
    /\ out = <<>>

\* part_005:44-47, 64-67, 84-113: a route handler calls the core function
ServePages(p) ==
    /\ Len(out) < MaxCalls
    /\ \/ getFeatured_Call(p)
       \/ getHeroes_Call(p)
       \/ \E slug \in Slugs, lang \in collators : getPage_Call(p, slug, lang)
       \/ \E id \in {None, Some(1)} : queryItems_Call(p, id, EmptyQuery, DefaultOptions)
       \/ \E id \in {3, 5} : getItemDetails_Call(p, id)

NextPages ==
    \/ \E p \in Callers :
          \/ ServePages(p)
          \/ getFeatured_Gate(p)
          \/ getFeatured_Fetch(p)
          \/ getFeatured_Store(p)
          \/ getHeroes_Gate(p)
          \/ getHeroes_Fetch(p)
          \/ getPage_Gate(p)
          \/ getPage_Fetch(p)
          \/ getItem_Gate(p)
          \/ getItem_Fetch(p)
          \/ getItemDetails_Gate(p)
          \/ getItemDetails_Item(p)
          \/ getItemDetails_Fetch(p)
          \/ queryItems_Item(p)
          \/ queryItems_Gate(p)
          \/ queryItems_Fetch(p)
          \/ queryItems_Map(p)
          \/ queryItems_Creators(p)
          \/ queryItems_Total(p)
          \/ getFilters_Gate(p)
          \/ getFilters_Compute(p)
          \/ getCreators_Gate(p)
          \/ getCreators_Compute(p)
          \/ getCounts_Gate(p)
          \/ getCounts_Compute(p)
          \/ getAllItems_Gate(p)
          \/ getAllItems_Wait(p)
          \/ getAllItems_Page(p)
          \/ SafetyTimeout(p)
          \/ Reply(p)
    \/ OrphanTimeout

SpecPages == InitPages /\ [][NextPages]_vars

(***************************************************************************)
(* Claims about what a call that returns {error} has written.              *)
(***************************************************************************)
\* the ended calls of `op` that returned an {error} of their own
Failed(op) == {p \in Callers : /\ proc[p].pc = "done"
                               /\ proc[p].op = op
                               /\ op \in proc[p].errored}

\* C35 as stated: a call of getItemDetails, queryItems, getPage, getFeatured
\* or getHeroes that has returned {error} has written no cache key.
C35_ErrorWritesNothing ==
    \A op \in {"getItemDetails", "queryItems", "getPage", "getFeatured", "getHeroes"} :
       \A p \in Failed(op) : proc[p].stored = {}

\* C35, amended: a call that returns {error} has not written the key it
\* would have stored its result under, and that key is absent when the call
\* ends, so that the next call with the same arguments misses and asks
\* upstream again: query:{queryString} for queryItems, item:details:{id}
\* for getItemDetails, item:{id} for the getItem inside either,
\* page:{localSlug} for getPage, featured and heroes.  getPage, getFeatured
\* and getHeroes have written no key at all.
C35_ErrorNotStored ==
    /\ \A p \in Failed("queryItems") :
          /\ "query" \notin proc[p].stored
          /\ Val(proc[p].key) \notin KeysOf(cache.query)
    /\ \A p \in Failed("getItemDetails") :
          /\ "details" \notin proc[p].stored
          /\ Val(proc[p].id) \notin KeysOf(cache.details)
    /\ \A p \in Callers :
          "getItem" \in proc[p].errored
          => /\ "item" \notin proc[p].stored
             /\ Val(proc[p].id) \notin KeysOf(cache.item)
    /\ \A p \in Failed("getPage") :
          /\ proc[p].stored = {}
          /\ Val(proc[p].key) \notin KeysOf(cache.page)
    /\ \A p \in Failed("getFeatured") :
          /\ proc[p].stored = {}
          /\ cache.featured = None
    /\ \A p \in Failed("getHeroes") :
          /\ proc[p].stored = {}
          /\ cache.heroes = None

\* over a cache in which an earlier call has left no page, a parent-scoped
\* query has stored its parent, the facets and the mirror, and then its
\* search has failed: it returned {error} and its query key is not in the
\* cache
C35_Witness ==
    /\ Len(out) = 1
    /\ out[1].op = "getPage"
    /\ IsError(Val(out[1].val))
    /\ \E p \in Failed("queryItems") :
          /\ {"item", "filters", "allItems"} \subseteq proc[p].stored
          /\ Val(proc[p].id) \in KeysOf(cache.item)
          /\ Val(proc[p].key) \notin KeysOf(cache.query)

(***************************************************************************)
(* part_005:142-164 preload and the three refresh loops, and the timer     *)
(* that update leaves behind (part_005:135), with time.  One tick is one   *)
(* millisecond, scaled: setTimeout counts in milliseconds, redis keeps and *)
(* reports the time to live of a key in seconds.  `out` is the clock: the  *)
(* time, the ticks each key has left (0: the key is absent), the ticks     *)
(* until each timer is due, the ticks each awaited call has taken, and     *)
(* what each loop found and set when it last scheduled itself.             *)
(***************************************************************************)
\* part_005:151, redis.js ttlCache: a second has 1000 milliseconds; scaled
MsPerSecond == 2

\* api.js:133, 146, 164: the TTL of filters, creators and counts is
\* 60 * 60 * 24 seconds; scaled
PreloadTTL == 4

MaxLatency == 2      \* ticks an awaited refresh can take
MaxTime == 4         \* ticks a behaviour of the timed specification lasts

Loops == {"preloadFilters", "preloadCreators", "preloadCounts"}

\* the key a loop keeps fresh
KeyOf(loop) ==
    IF loop = "preloadFilters" THEN "filters"
    ELSE IF loop = "preloadCreators" THEN "creators" ELSE "counts"

\* api.js:117-165: what getFilters, getCreators and getCounts compute
ValueOf(key) ==
    IF key = "filters" THEN FiltersOf(upstream)
    ELSE IF key = "creators" THEN CreatorsOf(upstream) ELSE CountsOf(upstream)

\* redis.js ttlCache(key): the seconds the key has left, to the nearest
\* second, and -2 for a key that is absent
ttlCache(key) ==
    IF out.ttl[key] = 0 THEN 0 - 2
    ELSE (out.ttl[key] + (MsPerSecond \div 2)) \div MsPerSecond

\* part_005:151: setTimeout(preloadFilters, ttl * 0.95, true): the delay is
\* the number of seconds times 0.95, taken as milliseconds; a delay below 1
\* is 1
DelayOf(ttl) ==
    LET delay == (ttl * 95) \div 100 IN IF delay < 1 THEN 1 ELSE delay

\* part_005:142-146, 170-173: the server has started: preload() has called
\* the three loops, unforced and without awaiting them, and update() awaits
\* its poll; redis holds what an earlier run left in it, or nothing
InitPreload ==
    /\ upstream = Catalogue
    /\ \E left \in {0, 1, PreloadTTL * MsPerSecond} :
          /\ cache = IF left = 0 THEN EmptyCache
                     ELSE [EmptyCache EXCEPT !.filters = Some(FiltersOf(upstream)),
                                             !.creators = Some(CreatorsOf(upstream)),
                                             !.counts = Some(CountsOf(upstream))]
          /\ out = [now |-> 0,
                    ttl |-> [k \in {"filters", "creators", "counts"} |-> left],
                    due |-> [l \in Loops \cup {"update"} |-> 0],
                    busy |-> [l \in Loops \cup {"update"} |-> 0],
                    found |-> [l \in Loops \cup {"update"} |-> 0],
                    set |-> [l \in Loops \cup {"update"} |-> 0]]
          /\ proc = [l \in Loops \cup {"update"} |->
                       IF l = "update"
                       THEN [Idle EXCEPT !.op = "update", !.pc = "up_after"]
                       ELSE [Idle EXCEPT !.op = l, !.pc = "pl_get",
                                         !.cached = IF left = 0 THEN None
                                                    ELSE Some(ValueOf(KeyOf(l)))]]
    /\ awaitingAllItems = FALSE
    /\ orphans = 0
    /\ stalled = FALSE

\* part_005:149, 155, 161: the awaited getFilters(force), getCreators(force)
\* or getCounts(force) ends: with the cached value, or with the value it
\* has stored with a full TTL, or (the mirror fetch) with an exception,
\* which ends the loop
preload_Get(p) ==
    LET c == proc[p]
        key == KeyOf(c.op)
    IN
    /\ c.pc = "pl_get"
    /\ IF IsSome(c.cached) /\ ~c.force
       THEN /\ proc' = [proc EXCEPT ![p] = [c EXCEPT !.pc = "pl_ttl", !.val = c.cached]]
            /\ UNCHANGED <<cache, out>>
       ELSE \E outcome \in Outcomes :
               IF outcome = "fail"
               THEN /\ proc' = [proc EXCEPT ![p] = Throw(c)]
                    /\ UNCHANGED <<cache, out>>
               ELSE /\ cache' = setCache(key, ValueOf(key))
                    /\ out' = [out EXCEPT !.ttl[key] = PreloadTTL * MsPerSecond]
                    /\ proc' = [proc EXCEPT ![p] =
                                   [c EXCEPT !.pc = "pl_ttl", !.val = Some(ValueOf(key)),
                                             !.stored = @ \cup {key}]]
    /\ UNCHANGED <<upstream, awaitingAllItems, orphans, stalled>>

\* part_005:150-151: the loop reads the TTL of its key and schedules its
\* forced call
preload_Schedule(p) ==
    LET c == proc[p]
        ttl == ttlCache(KeyOf(c.op))
    IN
    /\ c.pc = "pl_ttl"
    /\ proc' = [proc EXCEPT ![p] = [c EXCEPT !.pc = "scheduled", !.val = None,
                                             !.cached = None, !.force = FALSE]]
    /\ out' = [out EXCEPT !.due[p] = DelayOf(ttl), !.busy[p] = 0,
                          !.found[p] = out.ttl[KeyOf(c.op)], !.set[p] = DelayOf(ttl)]
    /\ UNCHANGED <<upstream, cache, awaitingAllItems, orphans, stalled>>

\* part_005:148-149: a timer is due: the loop is called with force = true
\* and awaits the forced refresh, which starts with the cache read
preload_Fire(p) ==
    /\ proc[p].pc = "scheduled"
    /\ out.due[p] = 0
    /\ proc' = [proc EXCEPT ![p] = Enter(@, "pl_get", KeyOf(proc[p].op), TRUE)]
    /\ UNCHANGED <<upstream, cache, awaitingAllItems, orphans, stalled, out>>

\* part_005:135: update ends with setTimeout(preloadFilters, ms, true)
update_Schedule(p) ==
    /\ proc[p].pc = "up_after"
    /\ proc' = [proc EXCEPT ![p] = [@ EXCEPT !.op = "preloadFilters", !.pc = "scheduled",
                                             !.called = @ \cup {"setTimeout(preloadFilters)"}]]
    /\ out' = [out EXCEPT !.due[p] = ms, !.found[p] = 0, !.set[p] = 0]
    /\ UNCHANGED <<upstream, cache, awaitingAllItems, orphans, stalled>>

\* a millisecond passes: no timer is overdue and no continuation is ready
\* to run; the timers and the keys have one tick less, and a key whose time
\* is up is gone
Tick ==
    /\ out.now < MaxTime
    /\ \A p \in Callers :
          /\ proc[p].pc \notin {"pl_ttl", "up_after"}
          /\ proc[p].pc = "scheduled" => out.due[p] > 0
          /\ proc[p].pc = "pl_get" => out.busy[p] < MaxLatency
    /\ out' = [out EXCEPT
                  !.now = @ + 1,
                  !.ttl = [k \in DOMAIN @ |-> IF @[k] > 0 THEN @[k] - 1 ELSE 0],
                  !.due = [p \in DOMAIN @ |->
                              IF proc[p].pc = "scheduled" THEN @[p] - 1 ELSE @[p]],
                  !.busy = [p \in DOMAIN @ |->
                               IF proc[p].pc = "pl_get" THEN @[p] + 1 ELSE @[p]]]
    /\ cache' = [k \in DOMAIN cache |->
                    IF k \in DOMAIN out.ttl /\ out.ttl[k] = 1 THEN None ELSE cache[k]]
    /\ UNCHANGED <<upstream, awaitingAllItems, proc, orphans, stalled>>

NextPreload ==
    \/ \E p \in Callers :
          \/ preload_Get(p)
          \/ preload_Schedule(p)
          \/ preload_Fire(p)
          \/ update_Schedule(p)
    \/ Tick

SpecPreload == InitPreload /\ [][NextPreload]_vars

(***************************************************************************)
(* Claims about the refresh loops.                                         *)
(***************************************************************************)
\* the loops that wait for their timer, which they have set themselves
Rescheduled == {p \in Callers : proc[p].pc = "scheduled" /\ out.set[p] > 0}

\* C34 as stated: a loop schedules its forced refresh after 0.95 times the
\* time its key had left when the loop read the TTL.
C34_RefreshAtNinetyFivePercent ==
    \A p \in Rescheduled : out.set[p] = DelayOf(out.found[p])

\* C38 as stated: no key has more than one refresh timer pending.
C38_OneTimerPerKey ==
    \A key \in DOMAIN out.ttl :
       Cardinality({p \in Callers : /\ proc[p].pc = "scheduled"
                                    /\ KeyOf(proc[p].op) = key}) <= 1

====
